---- MODULE Spec2Model ----
(***************************************************************************)
(* A model of the record -> object transformation engine of                *)
(* metadata-translation/src/bin/lib/transform_nmdc_data.py.                *)
(*                                                                         *)
(* Python values are tagged records.  A Python str is a sequence of atoms: *)
(* an atom is either one of the characters the code inspects (",", " ",    *)
(* "|") or a maximal run of other characters ("gold_id", "12", "5.2").     *)
(* str.split, str.strip and the "in" test then work on atoms exactly as    *)
(* they work on characters.                                                *)
(***************************************************************************)
EXTENDS Integers, Sequences, FiniteSets, TLC

-----------------------------------------------------------------------------
(* Python values *)

None == [k |-> "none"]
\* float("nan"): the null of a pandas column (pds.isnull is true of it)
NaN == [k |-> "nan"]
Str(s) == [k |-> "str", v |-> s]
IntV(n) == [k |-> "int", v |-> n]
\* a float, held in tenths: FloatV(52) is 5.2
FloatV(t) == [k |-> "float", v |-> t]
\* a dict keeps its insertion order: a sequence of items
Item(key, val) == [key |-> key, val |-> val]
Dict(items) == [k |-> "dict", v |-> items]
List(xs) == [k |-> "list", v |-> xs]
\* an instance of a class of the nmdc module: its class name and its __dict__
Obj(cls, items) == [k |-> "obj", cls |-> cls, v |-> items]
\* an exception that propagates out of the function
Raise(e) == [k |-> "raise", v |-> e]

IsNone(x) == x.k = "none"
IsStr(x) == x.k = "str"
IsDict(x) == x.k = "dict"
IsList(x) == x.k = "list"
IsObj(x) == x.k = "obj"
IsRaise(x) == x.k = "raise"

\* a one-word str, and the "name, dtype" form of a plain reference
W(a) == Str(<<a>>)
Typed(a, d) == Str(<<a, ",", " ", d>>)

-----------------------------------------------------------------------------
(* str operations *)

RECURSIVE LStrip(_)
LStrip(s) == IF s # <<>> /\ Head(s) = " " THEN LStrip(Tail(s)) ELSE s

RECURSIVE RStrip(_)
RStrip(s) ==
    IF s # <<>> /\ s[Len(s)] = " " THEN RStrip(SubSeq(s, 1, Len(s) - 1)) ELSE s

\* str.strip()
Strip(s) == RStrip(LStrip(s))

\* sep in s, for a one-character sep
Contains(s, c) == \E i \in 1..Len(s) : s[i] = c

\* whether s starts with the atoms of sep
StartsWith(s, sep) == Len(s) >= Len(sep) /\ SubSeq(s, 1, Len(sep)) = sep

RECURSIVE SplitAt(_, _, _, _)
\* the pieces of s between occurrences of the non-empty sep, after at most
\* max splits (max < 0: no limit); cur is the piece being read
SplitAt(s, sep, cur, max) ==
    IF s = <<>> THEN <<cur>>
    ELSE IF StartsWith(s, sep) /\ max # 0
         THEN <<cur>> \o SplitAt(SubSeq(s, Len(sep) + 1, Len(s)), sep, <<>>,
                                 max - 1)
         ELSE SplitAt(Tail(s), sep, Append(cur, Head(s)), max)

\* s.split(c) for a one-character c
Split(s, c) == SplitAt(s, <<c>>, <<>>, -1)

\* s.split(c, 1)
SplitOnce(s, c) == SplitAt(s, <<c>>, <<>>, 1)

\* str(val).split(sep) for a Python value sep
PySplit(s, sep) ==
    IF ~IsStr(sep) THEN Raise("TypeError")
    ELSE IF sep.v = <<>> THEN Raise("ValueError")
    ELSE List(SplitAt(s, sep.v, <<>>, -1))

-----------------------------------------------------------------------------
(* numbers and their text *)

\* the integer literals of the model and their values
IntLit == ("0" :> 0) @@ ("1" :> 1) @@ ("5" :> 5) @@ ("12" :> 12)

\* the float literals of the model and their values in tenths
FloatLit ==
    ("0.0" :> 0) @@ ("1.0" :> 10) @@ ("5.0" :> 50) @@ ("5.2" :> 52)
        @@ ("12.0" :> 120)

IntText(n) == CHOOSE a \in DOMAIN IntLit : IntLit[a] = n
FloatText(t) == CHOOSE a \in DOMAIN FloatLit : FloatLit[a] = t

\* str(x) / f"{x}"
PyStr(x) ==
    CASE x.k = "str" -> x.v
      [] x.k = "int" -> <<IntText(x.v)>>
      [] x.k = "float" -> <<FloatText(x.v)>>
      [] x.k = "none" -> <<"None">>
      [] x.k = "nan" -> <<"nan">>
      [] x.k = "dict" -> <<"{", "...", "}">>
      [] x.k = "list" -> <<"[", "...", "]">>
      [] x.k = "obj" -> <<x.cls, "(", "...", ")">>

\* pds.isnull(x) of a scalar, str, dict or object
IsNull(x) == x.k \in {"none", "nan"}

-----------------------------------------------------------------------------
(* dict operations; a key is a str, held as its atoms *)

HasKey(items, key) == \E i \in 1..Len(items) : items[i].key = key
Get(items, key) == items[CHOOSE i \in 1..Len(items) : items[i].key = key].val

\* d[key] = val: replaces the value in place, or appends a new item
Put(items, key, val) ==
    IF HasKey(items, key)
    THEN [i \in 1..Len(items) |->
            IF items[i].key = key THEN Item(key, val) ELSE items[i]]
    ELSE Append(items, Item(key, val))

RECURSIVE Without(_, _)
\* d.pop(key) / del d[key]: the items left
Without(items, key) ==
    IF items = <<>> THEN <<>>
    ELSE IF Head(items).key = key THEN Tail(items)
         ELSE <<Head(items)>> \o Without(Tail(items), key)

-----------------------------------------------------------------------------
(* Value Coercer *)

\* the names eval() resolves to a conversion in this model's inputs
KnownDtypes == {W("int"), W("float")}

\* the number a one-word text denotes, or None
NumberOf(t) ==
    IF Len(t) # 1 THEN None
    ELSE IF t[1] \in DOMAIN IntLit THEN IntV(IntLit[t[1]])
    ELSE IF t[1] \in DOMAIN FloatLit THEN FloatV(FloatLit[t[1]])
    ELSE None

\* int(num) and float(num) of a number
Convert(dtype, num) ==
    IF dtype = W("int")
    THEN (IF num.k = "int" THEN num ELSE IntV(num.v \div 10))
    ELSE (IF num.k = "float" THEN num ELSE FloatV(num.v * 10))

\* the arguments of a call written as text: a comma after the last one is
\* allowed
CallArguments(pieces) ==
    IF Len(pieces) > 1 /\ Strip(pieces[Len(pieces)]) = <<>>
    THEN SubSeq(pieces, 1, Len(pieces) - 1)
    ELSE pieces

\* dtype(arguments) evaluated: an argument that is empty or holds two words
\* does not parse; then dtype and the arguments are looked up, and a word
\* that is no numeric literal is an unbound name, as is a dtype outside
\* KnownDtypes; int and float convert one number and take no second one
EvalArguments(dtype, arguments) ==
    IF \E i \in 1..Len(arguments) : Len(Strip(arguments[i])) # 1
    THEN Raise("SyntaxError")
    ELSE IF dtype \notin KnownDtypes THEN Raise("NameError")
    ELSE IF \E i \in 1..Len(arguments) : IsNone(NumberOf(Strip(arguments[i])))
    THEN Raise("NameError")
    ELSE IF Len(arguments) > 1 THEN Raise("TypeError")
    ELSE Convert(dtype, NumberOf(Strip(arguments[1])))

\* eval(f"{dtype}({value})"): the text t of value, stripped, is evaluated as
\* source text.  An empty text calls dtype() with no argument; otherwise
\* the commas of the text separate the arguments of the call.  (The texts
\* evaluated hold words, blanks and commas, no operator.)
EvalStripped(dtype, t) ==
    IF t = <<>>
    THEN (IF dtype \notin KnownDtypes THEN Raise("NameError")
          ELSE IF dtype = W("int") THEN IntV(0) ELSE FloatV(0))
    ELSE EvalArguments(dtype, CallArguments(Split(t, ",")))

EvalCall(dtype, text) == EvalStripped(dtype, Strip(text))

\* coerce_value with the None test left out
coerce_value_noNoneTest(value, dtype) ==
    IF dtype # W("str") THEN EvalCall(dtype, PyStr(value))
    ELSE Str(PyStr(value))

coerce_value(value, dtype) ==
    IF IsNone(value) THEN None
    ELSE IF dtype # W("str") THEN EvalCall(dtype, PyStr(value))
    ELSE Str(PyStr(value))

-----------------------------------------------------------------------------
(* Field Resolver *)

\* record_has_field: a record is the namedtuple of a row, held as its items
record_has_field(nmdc_record, attribute_field) ==
    LET field == IF Contains(attribute_field, ",")
                 THEN Strip(Split(attribute_field, ",")[1])
                 ELSE Strip(attribute_field)
    IN  HasKey(nmdc_record, field)

\* what `"," in x` followed by x.strip() raises when x is no str: a list has
\* "in" but no strip; None and numbers have no "in"
NotAStr(x) == IF IsList(x) THEN "AttributeError" ELSE "TypeError"

RECURSIVE get_dtype_from_attribute_field(_)
get_dtype_from_attribute_field(attribute_field) ==
    IF IsDict(attribute_field)
    THEN IF HasKey(attribute_field.v, <<"$const">>)
         THEN get_dtype_from_attribute_field(Get(attribute_field.v, <<"$const">>))
         ELSE W("str")
    ELSE IF ~IsStr(attribute_field) THEN Raise(NotAStr(attribute_field))
    ELSE IF Contains(attribute_field.v, ",")
         THEN Str(Strip(Split(attribute_field.v, ",")[2]))
         ELSE W("str")

RECURSIVE get_field_and_dtype_from_attribute_field(_)
\* the (field, dtype) tuple; field is a str or (third branch) the
\* attribute_field dict itself
get_field_and_dtype_from_attribute_field(attribute_field) ==
    IF IsDict(attribute_field)
    THEN IF HasKey(attribute_field.v, <<"$const">>)
         THEN get_field_and_dtype_from_attribute_field(
                  Get(attribute_field.v, <<"$const">>))
         ELSE IF HasKey(attribute_field.v, <<"$field">>)
         THEN get_field_and_dtype_from_attribute_field(
                  Get(attribute_field.v, <<"$field">>))
         ELSE [k |-> "tuple", field |-> attribute_field, dtype |-> W("str")]
    ELSE IF ~IsStr(attribute_field) THEN Raise(NotAStr(attribute_field))
    ELSE IF Contains(attribute_field.v, ",")
         THEN LET parts == Split(attribute_field.v, ",")
              IN  IF Len(parts) # 2 THEN Raise("ValueError")
                  ELSE [k |-> "tuple", field |-> Str(Strip(parts[1])),
                        dtype |-> Str(Strip(parts[2]))]
         ELSE [k |-> "tuple", field |-> Str(Strip(attribute_field.v)),
               dtype |-> W("str")]

\* x, or F(x) when x is no exception: the statements after a call that may
\* raise
Then(x, F(_)) == IF IsRaise(x) THEN x ELSE F(x)

\* lines 195-204 with the field name standing in for a null value too
lookup_nullFallsBack(record, fd, return_field_if_none) ==
    IF ~IsStr(fd.field) THEN Raise("AttributeError")
    ELSE IF record_has_field(record, fd.field.v)
            /\ ~IsNull(Get(record, fd.field.v))
    THEN coerce_value(Get(record, fd.field.v), fd.dtype)
    ELSE IF return_field_if_none THEN coerce_value(fd.field, fd.dtype)
    ELSE None

\* lines 195-204 of get_record_attr: the value of the field fd names
lookup(record, fd, return_field_if_none) ==
    \* record_has_field calls .strip() on the field
    IF ~IsStr(fd.field) THEN Raise("AttributeError")
    ELSE IF record_has_field(record, fd.field.v)
    THEN IF ~IsNull(Get(record, fd.field.v))
         THEN coerce_value(Get(record, fd.field.v), fd.dtype)
         ELSE None
    ELSE IF return_field_if_none THEN coerce_value(fd.field, fd.dtype)
    ELSE None

get_record_attr(record, attribute_field, return_field_if_none) ==
    IF IsDict(attribute_field) /\ HasKey(attribute_field.v, <<"$const">>)
    THEN \* the constant: no record access
         Then(get_field_and_dtype_from_attribute_field(
                  Get(attribute_field.v, <<"$const">>)),
              LAMBDA fd : coerce_value(fd.field, fd.dtype))
    ELSE Then(get_field_and_dtype_from_attribute_field(attribute_field),
              LAMBDA fd : lookup(record, fd, return_field_if_none))

-----------------------------------------------------------------------------
(* Value Pruning & Normalization *)

RECURSIVE is_value(_)
is_value(variable) ==
    IF IsNone(variable) THEN FALSE
    ELSE IF variable.k \in {"list", "dict", "str"} /\ Len(variable.v) = 0
    THEN FALSE
    ELSE IF variable.k \notin {"list", "dict", "str"} /\ IsNull(variable)
    THEN FALSE
    ELSE IF IsDict(variable)
    THEN IF HasKey(variable.v, <<"id">>)
         THEN is_value(Get(variable.v, <<"id">>))
         ELSE IF HasKey(variable.v, <<"has_raw_value">>)
         THEN is_value(Get(variable.v, <<"has_raw_value">>))
         ELSE FALSE
    ELSE TRUE

\* {k: v for k, v in items if is_value(v)}
valid_items(items) == SelectSeq(items, LAMBDA it : is_value(it.val))

RECURSIVE as_dict(_)
\* jsonasobj.as_dict: an object becomes the dict of its attributes, through
\* nested objects and lists
as_dict(x) ==
    IF IsObj(x)
    THEN Dict([i \in 1..Len(x.v) |-> Item(x.v[i].key, as_dict(x.v[i].val))])
    ELSE IF IsList(x) THEN List([i \in 1..Len(x.v) |-> as_dict(x.v[i])])
    ELSE x

\* the first loop of make_dict: the valid values of each dict and list
make_dict_pass1(val) ==
    IF IsDict(val) THEN Dict(valid_items(val.v))
    ELSE IF IsList(val) THEN List(SelectSeq(val.v, is_value))
    ELSE val

\* the first loop alone
pruned_firstLoopOnly(d) ==
    Dict([i \in 1..Len(d) |-> Item(d[i].key, make_dict_pass1(d[i].val))])

\* the two loops of make_dict over the items d of the object's dict
pruned(d) ==
    Dict(valid_items([i \in 1..Len(d) |->
                         Item(d[i].key, make_dict_pass1(d[i].val))]))

make_dict(obj) ==
    IF IsNone(obj) THEN None
    \* no _as_dict: not an object of the nmdc module
    ELSE IF ~IsObj(obj) THEN obj
    ELSE pruned(as_dict(obj).v)

\* [make_dict(o) for o in kept]
make_dicts(kept) == List([i \in 1..Len(kept) |-> make_dict(kept[i])])

make_dict_from_nmdc_obj(nmdc_obj) ==
    IF IsList(nmdc_obj) THEN make_dicts(SelectSeq(nmdc_obj.v, is_value))
    ELSE make_dict(nmdc_obj)

-----------------------------------------------------------------------------
(* the type registry: the classes of the nmdc module *)

\* the class names getattr(nmdc, name) finds
NmdcClasses ==
    {"Biosample", "Study", "GeolocationValue", "QuantityValue",
     "AttributeValue"}

Class(name) == [k |-> "class", name |-> name]

make_nmdc_class(class_type) ==
    IF IsStr(class_type)
    THEN IF Len(class_type.v) = 1 /\ class_type.v[1] \in NmdcClasses
         THEN Class(class_type.v[1])
         ELSE Raise("AttributeError")
    ELSE class_type

\* class_type(**kwargs): the new object holds the named arguments
Construct(class_type, kwargs) ==
    IF class_type.k = "class" THEN Obj(class_type.name, kwargs)
    ELSE Raise("TypeError")

\* nmdc_class.class_class_curie
class_class_curie(cls) == Str(<<"nmdc", ":", cls>>)

-----------------------------------------------------------------------------
(* Object Builder: nested objects *)

RECURSIVE make_record_dict_from(_, _, _, _)
\* the loop of make_record_dict over the items left, record_dict so far
make_record_dict_from(nmdc_record, items, return_field_if_none, record_dict) ==
    IF items = <<>> THEN Dict(record_dict)
    ELSE IF Head(items).key = <<"$class_type">>
    THEN make_record_dict_from(nmdc_record, Tail(items), return_field_if_none,
                               record_dict)
    ELSE IF IsDict(Head(items).val)
    THEN IF Head(items).val.v = <<>> THEN Raise("IndexError")
         ELSE IF Head(items).val.v[1].key = <<"$const">>
         THEN \* the literal as written: not coerced, not split
              make_record_dict_from(nmdc_record, Tail(items),
                  return_field_if_none,
                  Put(record_dict, Head(items).key, Head(items).val.v[1].val))
         ELSE make_record_dict_from(nmdc_record, Tail(items),
                                    return_field_if_none, record_dict)
    ELSE Then(get_record_attr(nmdc_record, Head(items).val,
                              return_field_if_none),
              LAMBDA val :
                  make_record_dict_from(nmdc_record, Tail(items),
                      return_field_if_none,
                      Put(record_dict, Head(items).key, val)))

make_record_dict(nmdc_record, object_dict, return_field_if_none) ==
    make_record_dict_from(nmdc_record, object_dict.v, return_field_if_none,
                          <<>>)

\* lines 579-585 and 232-238: the object of the class the spec names, built
\* from record_dict, or record_dict itself
typed_or_dict(object_dict, record_dict) ==
    IF HasKey(object_dict.v, <<"$class_type">>)
    THEN Then(make_nmdc_class(Get(object_dict.v, <<"$class_type">>)),
              LAMBDA class_type : Construct(class_type, record_dict.v))
    ELSE record_dict

make_object_from_dict(nmdc_record, object_dict) ==
    Then(make_record_dict(nmdc_record, object_dict, TRUE),
         LAMBDA record_dict : typed_or_dict(object_dict, record_dict))

-----------------------------------------------------------------------------
(* List/Collection Builder *)

Pair(res, spec) == [k |-> "pair", res |-> res, spec |-> spec]

RECURSIVE CoerceFrom(_, _, _)
\* [coerce_value(rv.strip(), dtype) for rv in pieces]: the list, or the
\* first exception
CoerceFrom(pieces, dtype, out) ==
    IF pieces = <<>> THEN List(out)
    ELSE Then(coerce_value(Str(Strip(Head(pieces))), dtype),
              LAMBDA c : CoerceFrom(Tail(pieces), dtype, Append(out, c)))

\* the pieces of str(val) split on sep, each stripped and coerced
SplitAndCoerce(val, sep, dtype) ==
    Then(PySplit(PyStr(val), sep),
         LAMBDA pieces : CoerceFrom(pieces.v, dtype, <<>>))

\* item["$split_val"], or the default
split_val_of(item) ==
    IF HasKey(item.v, <<"$split_val">>) THEN Get(item.v, <<"$split_val">>)
    ELSE Str(<<",">>)

\* lines 704-717: the values of a field wrapper whose record value is
\* record_val
split_record_val(record_val, split_val, dtype) ==
    IF IsNone(record_val) THEN List(<<None>>)
    ELSE IF ~IsNone(split_val) THEN SplitAndCoerce(record_val, split_val, dtype)
    ELSE IF ~IsStr(record_val) THEN Raise("AttributeError")
    ELSE Then(coerce_value(Str(Strip(record_val.v)), dtype),
              LAMBDA c : List(<<c>>))

\* lines 685-717 with the dtype of line 683
value_from_list_item(nmdc_record, item, dtype) ==
    IF HasKey(item.v, <<"$const">>)
    THEN Then(coerce_value(Get(item.v, <<"$const">>), dtype),
              LAMBDA c : List(<<c>>))
    ELSE Then(get_record_attr(nmdc_record, Get(item.v, <<"$field">>), FALSE),
              LAMBDA record_val :
                  split_record_val(record_val, split_val_of(item), dtype))

make_value_from_list_item_dict(nmdc_record, item) ==
    Then(get_dtype_from_attribute_field(Get(item.v, <<"$field">>)),
         LAMBDA dtype : value_from_list_item(nmdc_record, item, dtype))

\* lines 625-638: the split column of the sub-field field_name whose record
\* value is val
record_value(field_name, val, split_val) ==
    IF IsNone(val) THEN List(<<None>>)
    ELSE Then(get_dtype_from_attribute_field(field_name),
              LAMBDA dtype :
                  SplitAndCoerce(val,
                      IF IsDict(field_name)
                         /\ HasKey(field_name.v, <<"$split_val">>)
                      THEN Get(field_name.v, <<"$split_val">>)
                      ELSE split_val,
                      dtype))

RECURSIVE record_values_from(_, _, _, _)
\* the loop of make_object_from_list_item_dict over item.values(): the list
\* of split columns, or the first exception
record_values_from(nmdc_record, items, split_val, record_values) ==
    IF items = <<>> THEN List(record_values)
    ELSE Then(Then(get_record_attr(nmdc_record, Head(items).val, FALSE),
                   LAMBDA val : record_value(Head(items).val, val, split_val)),
              LAMBDA rv :
                  record_values_from(nmdc_record, Tail(items), split_val,
                                     Append(record_values, rv)))

\* the item after lines 604-615: "$split_val" is popped only when the item
\* has the key "$spit_val", "$class_type" whenever it is there
PoppedItem(item) ==
    Dict(Without(IF HasKey(item.v, <<"$spit_val">>)
                 THEN Without(item.v, <<"$split_val">>) ELSE item.v,
                 <<"$class_type">>))

\* lines 617-662 on the popped item: the exception the call ends with
list_item_objects(nmdc_record, item, split_val, class_type) ==
    Then(class_type,
         LAMBDA c :
             Then(record_values_from(nmdc_record, item.v, split_val, <<>>),
                  \* line 652: the module binds no name zip_longest
                  LAMBDA record_values : Raise("NameError")))

\* make_object_from_list_item_dict: Pair(the list or the exception, the item
\* as the call leaves it)
make_object_from_list_item_dict(nmdc_record, item) ==
    IF HasKey(item.v, <<"$spit_val">>) /\ ~HasKey(item.v, <<"$split_val">>)
    THEN Pair(Raise("KeyError"), item)
    ELSE Pair(list_item_objects(nmdc_record, PoppedItem(item),
                  IF HasKey(item.v, <<"$spit_val">>)
                  THEN Get(item.v, <<"$split_val">>) ELSE Str(<<",">>),
                  IF HasKey(item.v, <<"$class_type">>)
                  THEN make_nmdc_class(Get(item.v, <<"$class_type">>))
                  ELSE None),
              PoppedItem(item))

\* lines 746-756: the values of a plain reference val of a list
plain_list_item(nmdc_record, val) ==
    Then(get_dtype_from_attribute_field(val),
         LAMBDA dtype :
             Then(get_record_attr(nmdc_record, val, TRUE),
                  LAMBDA record_val :
                      IF IsNone(record_val) THEN List(<<None>>)
                      ELSE SplitAndCoerce(record_val, Str(<<",">>), dtype)))

\* the values element val of a list specification gives, with the element as
\* the call leaves it
list_item(nmdc_record, val) ==
    IF IsDict(val) /\ HasKey(val.v, <<"$field">>)
    THEN Pair(make_value_from_list_item_dict(nmdc_record, val), val)
    ELSE IF IsDict(val) THEN make_object_from_list_item_dict(nmdc_record, val)
    ELSE Pair(plain_list_item(nmdc_record, val), val)

RECURSIVE make_object_from_list_from(_, _, _, _)
RECURSIVE extend_obj_list(_, _, _, _, _)
\* obj_list.extend(p.res) for element i, and the loop from element i + 1 on
extend_obj_list(nmdc_record, nmdc_list, i, obj_list, p) ==
    IF IsRaise(p.res)
    THEN Pair(p.res, List([nmdc_list EXCEPT ![i] = p.spec]))
    ELSE make_object_from_list_from(nmdc_record,
             [nmdc_list EXCEPT ![i] = p.spec], i + 1, obj_list \o p.res.v)

\* the loop of make_object_from_list from element i on, obj_list so far:
\* Pair(the list or the exception, nmdc_list as the call leaves it)
make_object_from_list_from(nmdc_record, nmdc_list, i, obj_list) ==
    IF i > Len(nmdc_list) THEN Pair(List(obj_list), List(nmdc_list))
    ELSE extend_obj_list(nmdc_record, nmdc_list, i, obj_list,
                         list_item(nmdc_record, nmdc_list[i]))

make_object_from_list(nmdc_record, nmdc_list) ==
    make_object_from_list_from(nmdc_record, nmdc_list.v, 1, <<>>)

-----------------------------------------------------------------------------
(* Object Builder: attributes and constructor arguments *)

\* setattr(obj, name, value)
\* setattr that leaves an attribute the object already has as it is
SetAttr_keepsFirst(obj, name, value) ==
    IF HasKey(obj.v, name) THEN obj ELSE Obj(obj.cls, Put(obj.v, name, value))

SetAttr(obj, name, value) == Obj(obj.cls, Put(obj.v, name, value))

\* make_attribute_value_from_record: get_record_attr, then a call of
\* make_attribute_value with two arguments, which takes one
make_attribute_value_from_record(nmdc_record, field) ==
    Then(get_record_attr(nmdc_record, field, TRUE),
         LAMBDA val : Raise("TypeError"))

\* lines 407-421: the value the first item's value val of a dict entry gives,
\* with val as the call leaves it
dict_entry_value(nmdc_record, val) ==
    IF IsList(val) THEN make_object_from_list(nmdc_record, val)
    ELSE IF IsDict(val) THEN Pair(make_object_from_dict(nmdc_record, val), val)
    ELSE IF IsStr(val) THEN Pair(get_record_attr(nmdc_record, val, TRUE), val)
    ELSE Pair(make_attribute_value_from_record(nmdc_record, val), val)

\* the attribute value of a dict entry whose first item is item, p the value
\* of that item
dict_entry(attribute_field, item, p) ==
    [field |-> Str(item.key), av |-> p.res,
     as_dict |-> ~(IsDict(item.val) /\ HasKey(item.val.v, <<"$class_type">>)),
     spec |-> Dict([attribute_field.v EXCEPT ![1].val = p.spec])]

\* the last item of a dict entry taken in place of the first
attribute_value_lastPair(nmdc_record, attribute_field) ==
    IF IsDict(attribute_field) /\ attribute_field.v # <<>>
    THEN dict_entry(attribute_field,
                    attribute_field.v[Len(attribute_field.v)],
                    Pair(dict_entry_value(nmdc_record,
                             attribute_field.v[Len(attribute_field.v)].val).res,
                         attribute_field.v[1].val))
    ELSE [field |-> attribute_field,
          av |-> make_attribute_value_from_record(nmdc_record, attribute_field),
          as_dict |-> TRUE, spec |-> attribute_field]

\* the attribute value of set_nmdc_object, lines 397-428:
\* [field, av, represent_as_dict, spec], spec the attribute_field as the call
\* leaves it
attribute_value(nmdc_record, attribute_field) ==
    IF IsDict(attribute_field)
    THEN IF attribute_field.v = <<>>
         THEN [field |-> None, av |-> Raise("IndexError"), as_dict |-> TRUE,
               spec |-> attribute_field]
         ELSE dict_entry(attribute_field, attribute_field.v[1],
                  dict_entry_value(nmdc_record, attribute_field.v[1].val))
    ELSE IF IsStr(attribute_field)
    THEN [field |-> Str(Strip(Split(attribute_field.v, ",")[1])),
          av |-> get_record_attr(nmdc_record, attribute_field, TRUE),
          as_dict |-> TRUE, spec |-> attribute_field]
    ELSE [field |-> attribute_field,
          av |-> make_attribute_value_from_record(nmdc_record, attribute_field),
          as_dict |-> TRUE, spec |-> attribute_field]

\* the crosswalk left out: the attribute is set under the entry's own name
target_name_ownName(attribute_map, field) == field

\* the attribute name set_nmdc_object sets, lines 434-438
target_name(attribute_map, field) ==
    IF Len(attribute_map.v) > 0 /\ HasKey(attribute_map.v, field)
    THEN Get(attribute_map.v, field).v ELSE field

\* set_nmdc_object: Pair(the updated object or the exception, the
\* attribute_field as the call leaves it)
\* lines 430-440 for the attribute value a
set_attribute_value(nmdc_obj, attribute_map, a) ==
    IF IsRaise(a.av) THEN Pair(a.av, a.spec)
    ELSE Pair(SetAttr(nmdc_obj, target_name(attribute_map, a.field.v),
                      IF a.as_dict THEN make_dict_from_nmdc_obj(a.av)
                      ELSE a.av),
              a.spec)

set_nmdc_object(nmdc_obj, nmdc_record, attribute_map, attribute_field) ==
    set_attribute_value(nmdc_obj, attribute_map,
                        attribute_value(nmdc_record, attribute_field))

RECURSIVE get_record_attrs_from(_, _, _)
\* [get_record_attr(nmdc_record, f) for f in fields]: the list, or the first
\* exception
get_record_attrs_from(nmdc_record, fields, out) ==
    IF fields = <<>> THEN List(out)
    ELSE Then(get_record_attr(nmdc_record, Head(fields), TRUE),
              LAMBDA val :
                  get_record_attrs_from(nmdc_record, Tail(fields),
                                        Append(out, val)))

\* one constructor argument, lines 228-242
constructor_arg(nmdc_record, field) ==
    IF IsDict(field) /\ Len(field.v) > 0
    THEN Then(make_record_dict(nmdc_record, field, TRUE),
              LAMBDA record_dict : typed_or_dict(field, record_dict))
    ELSE IF IsList(field) /\ Len(field.v) > 0
    THEN get_record_attrs_from(nmdc_record, field.v, <<>>)
    ELSE get_record_attr(nmdc_record, field, TRUE)

RECURSIVE constructor_args_from(_, _, _)
\* the loop of make_constructor_args_from_record over the items left
constructor_args_from(items, nmdc_record, constructor_dict) ==
    IF items = <<>> THEN Dict(constructor_dict)
    ELSE Then(constructor_arg(nmdc_record, Head(items).val),
              LAMBDA arg :
                  constructor_args_from(Tail(items), nmdc_record,
                      Put(constructor_dict, Head(items).key, arg)))

make_constructor_args_from_record(constructor_map, nmdc_record) ==
    constructor_args_from(constructor_map.v, nmdc_record, <<>>)

\* make_nmdc_object, lines 797-803: the new object, or the exception
new_nmdc_object(nmdc_record, nmdc_class, constructor_map) ==
    IF Len(constructor_map.v) > 0
    THEN Then(make_constructor_args_from_record(constructor_map, nmdc_record),
              LAMBDA constructor_args :
                  Construct(Class(nmdc_class), constructor_args.v))
    ELSE Construct(Class(nmdc_class), <<>>)

-----------------------------------------------------------------------------
(* Transform hooks *)

\* the attributes the classes of the registry declare; an object has each of
\* them from construction, as None until it is set
Slots(cls) ==
    IF cls \in {"Biosample", "Study"}
    THEN {<<"id">>, <<"name">>, <<"type">>, <<"depth">>, <<"lat_lon">>,
          <<"size">>, <<"collection_date">>, <<"part_of">>}
    ELSE {<<"has_raw_value">>, <<"has_unit">>, <<"has_numeric_value">>,
          <<"latitude">>, <<"longitude">>, <<"type">>}

\* hasattr(obj, name) and getattr(obj, name) of an object of the registry
HasAttr(obj, name) == HasKey(obj.v, name) \/ name \in Slots(obj.cls)
GetAttr(obj, name) ==
    IF HasKey(obj.v, name) THEN Get(obj.v, name)
    ELSE IF name \in Slots(obj.cls) THEN None
    ELSE Raise("AttributeError")

Bool(b) == [k |-> "bool", v |-> b]

\* has_raw_value(obj, attribute): a bool, or the exception
has_raw_value(obj, attribute) ==
    LET val == GetAttr(obj, attribute)
    IN  IF IsRaise(val) THEN val
        ELSE IF IsNone(val) THEN Bool(FALSE)
        ELSE IF IsDict(val)
        THEN Bool(HasKey(val.v, <<"has_raw_value">>)
                  /\ ~IsNull(Get(val.v, <<"has_raw_value">>)))
        ELSE IF IsObj(val)
        THEN Bool(~IsNull(GetAttr(val, <<"has_raw_value">>))
                  /\ ~IsRaise(GetAttr(val, <<"has_raw_value">>)))
        \* vars() of a value with no __dict__
        ELSE Raise("TypeError")

\* float(text): the number, or None where float() raises ValueError
ParseFloat(text) ==
    LET t == Strip(text)
    IN  IF Len(t) # 1 THEN None
        ELSE IF t[1] \in DOMAIN IntLit THEN FloatV(IntLit[t[1]] * 10)
        ELSE IF t[1] \in DOMAIN FloatLit THEN FloatV(FloatLit[t[1]])
        ELSE None

\* d[name] = value on a dict, setattr on an object
SetField(val, name, value) ==
    IF IsDict(val) THEN Dict(Put(val.v, name, value))
    ELSE SetAttr(val, name, value)

\* lines 892-918 with a head that is no number clearing has_numeric_value
quantity_value_clearsNumber(obj, attribute) ==
    LET val == GetAttr(obj, attribute)
        raw == IF IsDict(val) THEN Get(val.v, <<"has_raw_value">>)
               ELSE GetAttr(val, <<"has_raw_value">>)
        value_list == SplitOnce(PyStr(raw), " ")
        val1 == SetField(val, <<"has_numeric_value">>,
                         ParseFloat(value_list[1]))
        val2 == IF Len(value_list) > 1
                THEN SetField(val1, <<"has_unit">>, Str(Strip(value_list[2])))
                ELSE val1
    IN  SetAttr(obj, attribute, val2)

\* the body of make_quantity_value's loops for one object with a raw value,
\* lines 892-918: the object with the attribute's value updated
quantity_value(obj, attribute) ==
    LET val == GetAttr(obj, attribute)
        raw == IF IsDict(val) THEN Get(val.v, <<"has_raw_value">>)
               ELSE GetAttr(val, <<"has_raw_value">>)
        value_list == SplitOnce(PyStr(raw), " ")
        num == ParseFloat(value_list[1])
        val1 == IF IsNone(num) THEN val
                ELSE SetField(val, <<"has_numeric_value">>, num)
        val2 == IF Len(value_list) > 1
                THEN SetField(val1, <<"has_unit">>, Str(Strip(value_list[2])))
                ELSE val1
    IN  SetAttr(obj, attribute, val2)

quantity_step(obj, attribute) ==
    LET has == has_raw_value(obj, attribute)
    IN  IF IsRaise(has) THEN has
        ELSE IF has.v THEN quantity_value(obj, attribute)
        ELSE obj

\* the day, month and year texts strptime("%d-%b-%y") reads in this model,
\* with the text strftime("%Y-%m-%d") writes for each
DayLit == ("30" :> "30") @@ ("14" :> "14") @@ ("5" :> "05")
MonthLit == ("OCT" :> "10") @@ ("Oct" :> "10") @@ ("JAN" :> "01")
YearLit == ("14" :> "2014") @@ ("99" :> "1999")

\* the date written with the two-digit year in the place of the day
iso_8601_yearAsDay(date_str) ==
    IF /\ Len(date_str) = 5
       /\ date_str[2] = "-" /\ date_str[4] = "-"
       /\ date_str[1] \in DOMAIN DayLit
       /\ date_str[3] \in DOMAIN MonthLit
       /\ date_str[5] \in DOMAIN YearLit
    THEN Str(<<YearLit[date_str[5]], "-", MonthLit[date_str[3]], "-",
               date_str[5]>>)
    ELSE None

\* a parser that reads any three texts joined by "-" and writes them in
\* reverse order
iso_8601_anyFields(date_str) ==
    IF Len(date_str) = 5 /\ date_str[2] = "-" /\ date_str[4] = "-"
    THEN Str(<<date_str[5], "-", date_str[3], "-", date_str[1]>>)
    ELSE None

\* datetime.strptime(date_str, "%d-%b-%y").strftime("%Y-%m-%d"), or None
\* where strptime raises
iso_8601(date_str) ==
    IF /\ Len(date_str) = 5
       /\ date_str[2] = "-" /\ date_str[4] = "-"
       /\ date_str[1] \in DOMAIN DayLit
       /\ date_str[3] \in DOMAIN MonthLit
       /\ date_str[5] \in DOMAIN YearLit
    THEN Str(<<YearLit[date_str[5]], "-", MonthLit[date_str[3]], "-",
               DayLit[date_str[1]]>>)
    ELSE None

\* the body of make_iso_8601_date_value's loops, lines 946-960
date_step(obj, attribute) ==
    IF ~HasAttr(obj, attribute) THEN obj
    ELSE LET date_str == SplitOnce(PyStr(GetAttr(obj, attribute)), " ")[1]
             date_val == iso_8601(date_str)
         IN  IF date_str = <<"None">> THEN obj
             ELSE IF ~IsNone(date_val) THEN SetAttr(obj, attribute, date_val)
             \* the handler prints getattr(obj, "id")
             ELSE IF IsRaise(GetAttr(obj, <<"id">>)) THEN Raise("AttributeError")
             ELSE obj

\* the body of the loops of the transform tx_function for one object
transform_step(tx_function, obj, attribute) ==
    IF tx_function = "make_quantity_value" THEN quantity_step(obj, attribute)
    ELSE date_step(obj, attribute)

\* the object after the step, or the exception with the loop ended
stepped(nmdc_objs, i, obj) ==
    IF IsRaise(obj) THEN obj ELSE List([nmdc_objs EXCEPT ![i] = obj])

RECURSIVE for_each_obj(_, _, _, _)
\* "for obj in nmdc_objs" from object i on: the updated list, or the first
\* exception
for_each_obj(tx_function, nmdc_objs, attribute, i) ==
    IF i > Len(nmdc_objs) THEN List(nmdc_objs)
    ELSE Then(stepped(nmdc_objs, i,
                      transform_step(tx_function, nmdc_objs[i], attribute)),
              LAMBDA objs : for_each_obj(tx_function, objs.v, attribute, i + 1))

RECURSIVE for_each_attribute(_, _, _)
\* "for attribute in tx_attributes: for obj in nmdc_objs"
for_each_attribute(tx_function, nmdc_objs, tx_attributes) ==
    IF tx_attributes = <<>> THEN List(nmdc_objs)
    ELSE Then(for_each_obj(tx_function, nmdc_objs, Head(tx_attributes).v, 1),
              LAMBDA objs :
                  for_each_attribute(tx_function, objs.v, Tail(tx_attributes)))

make_quantity_value(nmdc_objs, tx_attributes) ==
    for_each_attribute("make_quantity_value", nmdc_objs.v, tx_attributes.v)

make_iso_8601_date_value(nmdc_objs, tx_attributes) ==
    for_each_attribute("make_iso_8601_date_value", nmdc_objs.v,
                       tx_attributes.v)

\* a pandas DataFrame: its column labels and its rows, each row the values in
\* column order
DataFrame(columns, rows) == [k |-> "df", columns |-> columns, rows |-> rows]

\* the namedtuple itertuples(index=False) yields for row i
Record(nmdc_df, i) ==
    [c \in 1..Len(nmdc_df.columns) |->
        Item(nmdc_df.columns[c], nmdc_df.rows[i][c])]

\* df.drop(columns=a, errors="ignore")
DropColumns(nmdc_df, tx_attributes) ==
    LET dropped == {tx_attributes.v[i].v : i \in 1..Len(tx_attributes.v)}
        keep == SelectSeq([c \in 1..Len(nmdc_df.columns) |-> c],
                          LAMBDA c : nmdc_df.columns[c] \notin dropped)
    IN  DataFrame([j \in 1..Len(keep) |-> nmdc_df.columns[keep[j]]],
                  [r \in 1..Len(nmdc_df.rows) |->
                      [j \in 1..Len(keep) |-> nmdc_df.rows[r][keep[j]]]])

\* the hook expressions of this model that eval() resolves: the three
\* functions the module defines, and a lambda
TestPreTransform == W("test_pre_transform")
MakeQuantityValue == W("make_quantity_value")
MakeIsoDate == W("make_iso_8601_date_value")
DropLambda == W("lambda df, a, **kw: df.drop(columns=a, errors='ignore')")
Resolvable == {TestPreTransform, MakeQuantityValue, MakeIsoDate, DropLambda}

\* eval(transform["function"]): the function, or NameError for a word that
\* names nothing
EvalFunction(function) ==
    IF function \in Resolvable THEN function ELSE Raise("NameError")

\* tx_function(nmdc_df, tx_attributes) of a pre transform
ApplyPre(tx_function, nmdc_df, tx_attributes) ==
    CASE tx_function = TestPreTransform -> nmdc_df
      [] tx_function = DropLambda -> DropColumns(nmdc_df, tx_attributes)
      \* iterating a DataFrame yields its column labels: getattr(label,
      \* attribute) raises, hasattr(label, attribute) is false
      [] tx_function = MakeQuantityValue ->
            IF tx_attributes.v # <<>> /\ nmdc_df.columns # <<>>
            THEN Raise("AttributeError") ELSE nmdc_df
      [] tx_function = MakeIsoDate -> nmdc_df

\* tx_function(nmdc_objs, tx_attributes, **tx_kwargs) of a post transform
ApplyPost(tx_function, nmdc_objs, tx_attributes) ==
    CASE tx_function = TestPreTransform -> nmdc_objs
      [] tx_function = MakeQuantityValue ->
            make_quantity_value(nmdc_objs, tx_attributes)
      [] tx_function = MakeIsoDate ->
            make_iso_8601_date_value(nmdc_objs, tx_attributes)
      \* a list has no drop
      [] tx_function = DropLambda -> Raise("AttributeError")

\* the test of the id key alone
null_junk_idOnly(obj) ==
    Obj(obj.cls,
        [i \in 1..Len(obj.v) |->
            IF IsDict(obj.v[i].val) /\ ~HasKey(obj.v[i].val.v, <<"id">>)
            THEN Item(obj.v[i].key, None) ELSE obj.v[i]])

\* lines 845-849 for one object: a dict attribute with neither key is set to
\* None
null_junk(obj) ==
    Obj(obj.cls,
        [i \in 1..Len(obj.v) |->
            IF /\ IsDict(obj.v[i].val)
               /\ ~HasKey(obj.v[i].val.v, <<"id">>)
               /\ ~HasKey(obj.v[i].val.v, <<"has_raw_value">>)
            THEN Item(obj.v[i].key, None) ELSE obj.v[i]])

-----------------------------------------------------------------------------
(* Driver: make_nmdc_object as a function of its inputs *)

RECURSIVE set_attributes_from(_, _, _, _, _)
RECURSIVE attribute_set(_, _, _, _, _)
\* entry i set with outcome p, and the loop from entry i + 1 on
attribute_set(nmdc_record, attribute_map, attribute_fields, i, p) ==
    IF IsRaise(p.res)
    THEN Pair(p.res, List([attribute_fields.v EXCEPT ![i] = p.spec]))
    ELSE set_attributes_from(p.res, nmdc_record, attribute_map,
             List([attribute_fields.v EXCEPT ![i] = p.spec]), i + 1)

\* the loop of lines 812-813 from entry i on: Pair(the object or the
\* exception, attribute_fields as the loop leaves it)
set_attributes_from(nmdc_obj, nmdc_record, attribute_map, attribute_fields, i) ==
    IF i > Len(attribute_fields.v) THEN Pair(nmdc_obj, attribute_fields)
    ELSE attribute_set(nmdc_record, attribute_map, attribute_fields, i,
             set_nmdc_object(nmdc_obj, nmdc_record, attribute_map,
                             attribute_fields.v[i]))

\* lines 805-813 for the new object obj
typed_with_attributes(obj, nmdc_record, cls, fields, amap) ==
    IF IsRaise(obj) THEN Pair(obj, fields)
    ELSE set_attributes_from(SetAttr(obj, <<"type">>, class_class_curie(cls)),
                             nmdc_record, amap, fields, 1)

\* make_nmdc_object(nmdc_record, nmdc_class) under a mapping specification:
\* Pair(the object or the exception, attribute_fields as the call leaves it)
make_nmdc_object(nmdc_record, cls, cmap, fields, amap) ==
    typed_with_attributes(new_nmdc_object(nmdc_record, cls, cmap),
                          nmdc_record, cls, fields, amap)

-----------------------------------------------------------------------------
(* the inputs of the model *)

\* the most rows of a dataset, and the most calls of dataframe_to_dict with
\* the same mapping specification objects
MaxRows == 2
MaxRuns == 2

D(items) == Dict(items)
I(key, val) == Item(<<key>>, val)

Columns == <<(<<"id">>), (<<"size">>), (<<"depth">>), (<<"ids">>), (<<"meter">>)>>

\* the rows a dataset is made of, in the order of Columns
RowA == <<W("s1"), IntV(12), Str(<<"5.2", " ", "m">>), Str(<<"a", ",", "b">>),
          W("zz")>>
RowB == <<W("s2"), NaN, NaN, NaN, NaN>>
RowC == <<W("s3"), W("x"), W("abc"), W("c"), None>>
Rows == {RowA, RowB, RowC}

RECURSIVE SeqsUpTo(_, _)
\* the sequences over S of length at most n
SeqsUpTo(S, n) ==
    IF n = 0 THEN {<<>>}
    ELSE LET shorter == SeqsUpTo(S, n - 1)
         IN  shorter \cup {Append(q, x) : q \in shorter, x \in S}

Datasets == {DataFrame(Columns, rows) : rows \in SeqsUpTo(Rows, MaxRows)}

Const(literal) == D(<<I("$const", literal)>>)

\* a mapping specification: the class and the three maps dataframe_to_dict
\* is called with
Mapping(cls, cmap, fields, amap) ==
    [nmdc_class |-> cls, constructor_map |-> D(cmap),
     attribute_fields |-> List(fields), attribute_map |-> D(amap)]

\* plain references, a coerced one, a nested mapping, a crosswalk entry
MapPlain ==
    Mapping("Biosample", <<I("id", W("id"))>>,
            <<Typed("size", "int"),
              D(<<I("depth", D(<<I("has_raw_value", W("depth"))>>))>>),
              W("name")>>,
            <<I("size", W("sample_size"))>>)

\* constants as a constructor argument, as a sub-field of a typed object
\* spec, as an attribute-list entry
MapConst ==
    Mapping("Biosample",
            <<I("id", W("id")), I("name", Const(W("meter")))>>,
            <<D(<<I("depth", D(<<I("has_raw_value", W("depth")),
                                 I("has_unit", Const(W("meter"))),
                                 I("$class_type", W("QuantityValue"))>>))>>),
              D(<<I("lat_lon", Const(W("meter")))>>)>>,
            <<>>)

\* a list of object specs carrying a type name
MapTypedList ==
    Mapping("Biosample", <<I("id", W("id"))>>,
            <<D(<<I("part_of", List(<<D(<<I("id", W("ids")),
                                         I("$class_type", W("Study"))>>)>>))>>)>>,
            <<>>)

\* the same with a type name the registry does not have
MapUnknownListType ==
    Mapping("Biosample", <<I("id", W("id"))>>,
            <<D(<<I("part_of", List(<<D(<<I("id", W("ids")),
                                         I("$class_type", W("NoSuchClass"))>>)>>))>>)>>,
            <<>>)

\* an object spec with a type name the registry does not have
MapUnknownType ==
    Mapping("Biosample", <<I("id", W("id"))>>,
            <<D(<<I("lat_lon", D(<<I("has_raw_value", W("depth")),
                                  I("$class_type", W("NoSuchClass"))>>))>>)>>,
            <<>>)

\* list specs: in the constructor, of plain references, of a field wrapper
MapLists ==
    Mapping("Biosample",
            <<I("id", W("id")), I("part_of", List(<<W("ids"), Const(W("meter"))>>))>>,
            <<D(<<I("name", List(<<W("ids")>>))>>),
              D(<<I("size", List(<<D(<<I("$field", W("ids")),
                                      I("$split_val", W(","))>>)>>))>>)>>,
            <<>>)

\* no constructor arguments; a nested mapping with neither id nor raw value
MapNoConstructor ==
    Mapping("Biosample", <<>>,
            <<W("id"),
              D(<<I("depth", D(<<I("has_raw_value", W("depth"))>>))>>),
              D(<<I("lat_lon", D(<<I("name", W("ids"))>>))>>)>>,
            <<>>)

\* two entries renamed to one target, two entries with one name, a
\* constructor argument whose name is a crosswalk key
MapOverwrite ==
    Mapping("Biosample", <<I("id", W("id")), I("depth", W("depth"))>>,
            <<W("size"), W("depth"), W("meter"), D(<<I("meter", W("ids"))>>)>>,
            <<I("size", W("sample_size")), I("depth", W("sample_size"))>>)

Mappings ==
    {MapPlain, MapConst, MapTypedList, MapUnknownListType, MapUnknownType,
     MapLists, MapNoConstructor, MapOverwrite}

\* a dataset of two rows with the columns sample_id and lat_lon, and the
\* mapping specification that reads it: the constructor takes the id from
\* sample_id, the attribute list has one entry of four keys
GeoColumns == <<(<<"sample_id">>), (<<"lat_lon">>)>>
GeoRow(id) == <<W(id), Str(<<"-33.46", " ", "150.17">>)>>
GeoDataset == DataFrame(GeoColumns, <<GeoRow("s1"), GeoRow("s2")>>)
MapGeolocation ==
    Mapping("Biosample", <<I("id", W("sample_id"))>>,
            <<D(<<I("latitude", W("lat")), I("longitude", W("lon")),
                  I("has_raw_value", W("lat_lon")),
                  I("$class_type", W("GeolocationValue"))>>)>>,
            <<>>)

\* the datasets a mapping specification is run on: the columns it names
DatasetsFor(m) == IF m = MapGeolocation THEN {GeoDataset} ELSE Datasets

Transform(function, attributes) ==
    D(<<I("function", function), I("attributes", List(attributes))>>)

NoSuchHook == W("no_such_transform")

TransformMaps ==
    { D(<<>>),
      D(<<I("pre", List(<<Transform(TestPreTransform, <<>>)>>)),
          I("post", List(<<Transform(MakeQuantityValue, <<W("depth")>>)>>))>>),
      D(<<I("pre", List(<<Transform(DropLambda, <<W("size")>>),
                          Transform(DropLambda, <<W("meter")>>)>>)),
          I("post", List(<<Transform(MakeQuantityValue, <<W("depth")>>),
                           Transform(MakeIsoDate, <<W("collection_date")>>),
                           Transform(TestPreTransform, <<>>)>>))>>),
      D(<<I("pre", List(<<Transform(DropLambda, <<W("ids")>>),
                          Transform(NoSuchHook, <<>>),
                          Transform(DropLambda, <<W("depth")>>)>>))>>),
      D(<<I("post", List(<<Transform(MakeQuantityValue, <<W("depth")>>),
                           Transform(NoSuchHook, <<>>),
                           Transform(MakeQuantityValue, <<W("lat_lon")>>)>>))>>),
      D(<<I("post", List(<<Transform(MakeQuantityValue, <<W("id")>>)>>))>>) }

-----------------------------------------------------------------------------
(* dataframe_to_dict as a state machine *)

VARIABLES
    pc,                 \* where dataframe_to_dict is
    run,                \* the number of the call
    nmdc_df0,           \* the caller's dataset
    nmdc_class,         \* the class of the top-level objects
    constructor_map,    \* the caller's mapping specification objects ...
    attribute_fields,
    attribute_map,
    transform_map,
    supplied,           \* ... and their values when the caller made them
    nmdc_df,            \* the local nmdc_df: the dataset the pre transforms return
    pre_i, row_i, af_i, post_i,     \* the loops' positions
    nmdc_obj,           \* the object make_nmdc_object works on
    nmdc_objs,          \* the list of objects
    nmdc_dicts,         \* the value returned, None until it returns
    exc,                \* the exception that left dataframe_to_dict, or None
    built,              \* the row number each object of nmdc_objs was built from
    fresh,              \* nmdc_objs as the post transforms first found it
    pre_io, post_io,    \* the argument and the result of each transform run
    call, ret           \* a call of one function on its own, and what it returns

vars ==
    <<pc, run, nmdc_df0, nmdc_class, constructor_map, attribute_fields,
      attribute_map, transform_map, supplied, nmdc_df, pre_i, row_i, af_i,
      post_i, nmdc_obj, nmdc_objs, nmdc_dicts, exc, built, fresh, pre_io,
      post_io, call, ret>>

specVars == <<nmdc_df0, nmdc_class, constructor_map, attribute_map,
              transform_map, supplied, call, ret>>

\* lines 824-825
pre_transforms ==
    IF HasKey(transform_map.v, <<"pre">>) THEN Get(transform_map.v, <<"pre">>).v
    ELSE <<>>
post_transforms ==
    IF HasKey(transform_map.v, <<"post">>)
    THEN Get(transform_map.v, <<"post">>).v ELSE <<>>

\* where control goes when the loop over the pre transforms ends, lines
\* 828-840
PcAfterPre(df) == IF Len(df.rows) > 0 THEN "new" ELSE "junk"
\* ... when the loop of lines 845-849 ends
PcAfterJunk == IF Len(post_transforms) > 0 THEN "post" ELSE "dicts"

Pending == [k |-> "pending"]
Exc(type, at, i) == [k |-> "exc", type |-> type, at |-> at, i |-> i]

\* the state at the start of a call, lines 817-825
Enter(df) ==
    /\ nmdc_df' = df
    /\ pc' = IF Len(pre_transforms) > 0 THEN "pre" ELSE PcAfterPre(df)
    /\ pre_i' = 1 /\ row_i' = 1 /\ af_i' = 1 /\ post_i' = 1
    /\ nmdc_obj' = None /\ nmdc_objs' = List(<<>>) /\ nmdc_dicts' = None
    /\ exc' = None /\ built' = <<>> /\ fresh' = None
    /\ pre_io' = <<>> /\ post_io' = <<>>

Init ==
    /\ \E m \in Mappings \cup {MapGeolocation} :
          /\ nmdc_df0 \in DatasetsFor(m)
          /\ nmdc_class = m.nmdc_class
          /\ constructor_map = m.constructor_map
          /\ attribute_fields = m.attribute_fields
          /\ attribute_map = m.attribute_map
          /\ supplied = m
    /\ transform_map \in TransformMaps
    /\ run = 1
    /\ nmdc_df = nmdc_df0
    /\ pc = IF Len(pre_transforms) > 0 THEN "pre" ELSE PcAfterPre(nmdc_df0)
    /\ pre_i = 1 /\ row_i = 1 /\ af_i = 1 /\ post_i = 1
    /\ nmdc_obj = None /\ nmdc_objs = List(<<>>) /\ nmdc_dicts = None
    /\ exc = None /\ built = <<>> /\ fresh = None
    /\ pre_io = <<>> /\ post_io = <<>>
    /\ call = None /\ ret = None

\* an exception leaves dataframe_to_dict: nothing is returned
Propagate(type, at, i) ==
    /\ pc' = "raised"
    /\ exc' = Exc(type, at, i)
    /\ UNCHANGED <<nmdc_df, pre_i, row_i, af_i, post_i, nmdc_obj, nmdc_objs,
                   nmdc_dicts, built, fresh, pre_io, post_io>>

\* a transform whose name resolves to nothing is skipped
HookRaise_skipHook(type, at, i) ==
    /\ exc' = Exc(type, at, i)
    /\ IF at = "pre-eval"
       THEN /\ pre_i' = pre_i + 1
            /\ pc' = IF pre_i = Len(pre_transforms) THEN PcAfterPre(nmdc_df)
                     ELSE "pre"
            /\ UNCHANGED post_i
       ELSE /\ post_i' = post_i + 1
            /\ pc' = IF post_i = Len(post_transforms) THEN "dicts" ELSE "post"
            /\ UNCHANGED pre_i
    /\ UNCHANGED <<nmdc_df, row_i, af_i, nmdc_obj, nmdc_objs, nmdc_dicts,
                   built, fresh, pre_io, post_io>>

\* lines 829 and 853: eval() raises and nothing catches it
HookRaise(type, at, i) == Propagate(type, at, i)

\* a row whose build raises is left out and the next row is built
BuildRaise_skipRow(type, at) ==
    /\ exc' = Exc(type, at, row_i)
    /\ nmdc_obj' = None
    /\ row_i' = row_i + 1
    /\ pc' = IF row_i = Len(nmdc_df.rows) THEN "junk" ELSE "new"
    /\ UNCHANGED <<nmdc_df, pre_i, af_i, post_i, nmdc_objs, nmdc_dicts, built,
                   fresh, pre_io, post_io>>

\* lines 837-840: an exception of make_nmdc_object leaves the list
\* comprehension and dataframe_to_dict
BuildRaise(type, at) == Propagate(type, at, row_i)

\* the second and later pre transforms are given the caller's dataset
PreInput_callersDataset == nmdc_df0

\* line 833: the argument of a pre transform
PreInput == nmdc_df

\* line 857: the argument of a post transform
PostInput == nmdc_objs

\* the loop goes on to the rows when the first pre transform has run
PcAfterPreTransform_leavesEarly(i, out) == PcAfterPre(out)

\* lines 828-833: where control goes after pre transform i returned out
PcAfterPreTransform(i, out) ==
    IF i = Len(pre_transforms) THEN PcAfterPre(out) ELSE "pre"

\* lines 827-833, one pre transform
PreTransform ==
    /\ pc = "pre"
    /\ LET transform == pre_transforms[pre_i]
           tx_function == EvalFunction(Get(transform.v, <<"function">>))
           tx_attributes == Get(transform.v, <<"attributes">>)
           out == ApplyPre(tx_function, PreInput, tx_attributes)
       IN  IF IsRaise(tx_function) THEN HookRaise(tx_function.v, "pre-eval", pre_i)
           ELSE IF IsRaise(out) THEN Propagate(out.v, "pre-call", pre_i)
           ELSE /\ nmdc_df' = out
                /\ pre_io' = Append(pre_io, [arg |-> PreInput, res |-> out])
                /\ pre_i' = pre_i + 1
                /\ pc' = PcAfterPreTransform(pre_i, out)
                /\ UNCHANGED <<row_i, af_i, post_i, nmdc_obj, nmdc_objs,
                               nmdc_dicts, exc, built, fresh, post_io>>
    /\ UNCHANGED <<run, attribute_fields, specVars>>

\* the call of make_nmdc_object goes on with the new object obj, or ends in
\* its exception
Constructed(obj) ==
    IF IsRaise(obj) THEN BuildRaise(obj.v, "new")
    ELSE /\ nmdc_obj' = obj
         /\ pc' = "type"
         /\ UNCHANGED <<nmdc_df, pre_i, row_i, af_i, post_i, nmdc_objs,
                        nmdc_dicts, exc, built, fresh, pre_io, post_io>>

\* make_nmdc_object, lines 797-803: the object is constructed
NewObject ==
    /\ pc = "new"
    /\ Constructed(new_nmdc_object(Record(nmdc_df, row_i), nmdc_class,
                                   constructor_map))
    /\ UNCHANGED <<run, attribute_fields, specVars>>

\* lines 807-809 left out: the attribute loop starts on the object as
\* constructed
SetType_leftOut ==
    /\ pc = "type"
    /\ nmdc_obj' = nmdc_obj
    /\ pc' = "attrs"
    /\ af_i' = 1
    /\ UNCHANGED <<nmdc_df, pre_i, row_i, post_i, nmdc_objs, nmdc_dicts, exc,
                   built, fresh, pre_io, post_io>>
    /\ UNCHANGED <<run, attribute_fields, specVars>>

\* make_nmdc_object, lines 807-809: the type discriminator is set
SetType ==
    /\ pc = "type"
    /\ nmdc_obj' = SetAttr(nmdc_obj, <<"type">>, class_class_curie(nmdc_class))
    /\ pc' = "attrs"
    /\ af_i' = 1
    /\ UNCHANGED <<nmdc_df, pre_i, row_i, post_i, nmdc_objs, nmdc_dicts, exc,
                   built, fresh, pre_io, post_io>>
    /\ UNCHANGED <<run, attribute_fields, specVars>>

\* the loop of lines 812-813 goes on with p, the outcome of set_nmdc_object
\* for entry af_i
AttributeSet(p) ==
    /\ attribute_fields' = List([attribute_fields.v EXCEPT ![af_i] = p.spec])
    /\ IF IsRaise(p.res) THEN BuildRaise(p.res.v, "attrs")
       ELSE /\ nmdc_obj' = p.res
            /\ af_i' = af_i + 1
            /\ UNCHANGED <<pc, nmdc_df, pre_i, row_i, post_i, nmdc_objs,
                           nmdc_dicts, exc, built, fresh, pre_io, post_io>>

\* make_nmdc_object, lines 812-813: one attribute-list entry is applied
SetAttribute ==
    /\ pc = "attrs"
    /\ af_i <= Len(attribute_fields.v)
    /\ AttributeSet(set_nmdc_object(nmdc_obj, Record(nmdc_df, row_i),
                                    attribute_map, attribute_fields.v[af_i]))
    /\ UNCHANGED <<run, specVars>>

\* line 815 and the list comprehension of lines 837-840: the object joins
\* the list and the next row is taken
ReturnObject ==
    /\ pc = "attrs"
    /\ af_i > Len(attribute_fields.v)
    /\ nmdc_objs' = List(Append(nmdc_objs.v, nmdc_obj))
    /\ built' = Append(built, row_i)
    /\ nmdc_obj' = None
    /\ row_i' = row_i + 1
    /\ pc' = IF row_i = Len(nmdc_df.rows) THEN "junk" ELSE "new"
    /\ UNCHANGED <<nmdc_df, pre_i, af_i, post_i, nmdc_dicts, exc, fresh,
                   pre_io, post_io>>
    /\ UNCHANGED <<run, attribute_fields, specVars>>

\* lines 845-849
NullJunk ==
    /\ pc = "junk"
    /\ nmdc_objs' = List([i \in 1..Len(nmdc_objs.v) |-> null_junk(nmdc_objs.v[i])])
    /\ fresh' = nmdc_objs'
    /\ pc' = PcAfterJunk
    /\ UNCHANGED <<nmdc_df, pre_i, row_i, af_i, post_i, nmdc_obj, nmdc_dicts,
                   exc, built, pre_io, post_io>>
    /\ UNCHANGED <<run, attribute_fields, specVars>>

\* lines 851-857, one post transform
PostTransform ==
    /\ pc = "post"
    /\ LET transform == post_transforms[post_i]
           tx_function == EvalFunction(Get(transform.v, <<"function">>))
           tx_attributes == Get(transform.v, <<"attributes">>)
           out == ApplyPost(tx_function, PostInput, tx_attributes)
       IN  IF IsRaise(tx_function)
           THEN HookRaise(tx_function.v, "post-eval", post_i)
           ELSE IF IsRaise(out) THEN Propagate(out.v, "post-call", post_i)
           ELSE /\ nmdc_objs' = out
                /\ post_io' = Append(post_io, [arg |-> PostInput, res |-> out])
                /\ post_i' = post_i + 1
                /\ pc' = IF post_i = Len(post_transforms) THEN "dicts"
                         ELSE "post"
                /\ UNCHANGED <<nmdc_df, pre_i, row_i, af_i, nmdc_obj,
                               nmdc_dicts, exc, built, fresh, pre_io>>
    /\ UNCHANGED <<run, attribute_fields, specVars>>

\* the list is built back to front
MakeDictsResult_reversed ==
    List([i \in 1..Len(nmdc_objs.v) |->
             make_dict_from_nmdc_obj(nmdc_objs.v[Len(nmdc_objs.v) + 1 - i])])

\* line 860
MakeDictsResult ==
    List([i \in 1..Len(nmdc_objs.v) |-> make_dict_from_nmdc_obj(nmdc_objs.v[i])])

\* lines 859-863: the dicts are made and returned
MakeDicts ==
    /\ pc = "dicts"
    /\ nmdc_dicts' = MakeDictsResult
    /\ pc' = "done"
    /\ UNCHANGED <<nmdc_df, pre_i, row_i, af_i, post_i, nmdc_obj, nmdc_objs,
                   exc, built, fresh, pre_io, post_io>>
    /\ UNCHANGED <<run, attribute_fields, specVars>>

\* the caller calls dataframe_to_dict again with the same dataset and the
\* same mapping specification objects
CallAgain ==
    /\ pc \in {"done", "raised"}
    /\ run < MaxRuns
    /\ run' = run + 1
    /\ Enter(nmdc_df0)
    /\ UNCHANGED <<attribute_fields, specVars>>

Next ==
    \/ PreTransform
    \/ NewObject
    \/ SetType
    \/ SetAttribute
    \/ ReturnObject
    \/ NullJunk
    \/ PostTransform
    \/ MakeDicts
    \/ CallAgain

Spec == Init /\ [][Next]_vars

-----------------------------------------------------------------------------
(* Attribute crosswalk *)

\* a line of a crosswalk table: a mapping row, or a comment
SssomRow(subject_label, predicate_id, object_label) ==
    [k |-> "row", subject_label |-> subject_label,
     predicate_id |-> predicate_id, object_label |-> object_label]
Comment == [k |-> "comment"]

\* the rows a reader told to skip "#" lines gives for the lines of a table
SkipComments(lines) == SelectSeq(lines, LAMBDA line : line # Comment)

\* nmdc_dataframes.make_dataframe(file, comment_str="#")
make_dataframe(lines) == SkipComments(lines)

\* pds.read_csv(sssom, sep="\t", comment="#", encoding="utf-8")
read_csv(lines) == SkipComments(lines)

\* .query("predicate_id == 'skos:exactMatch'")
query_exactMatch(mapping_df) ==
    SelectSeq(mapping_df, LAMBDA row : row.predicate_id = "skos:exactMatch")

RECURSIVE attr_map_from(_, _)
\* the dict comprehension of lines 484-487 over the rows left
attr_map_from(mapping_df, attr_map) ==
    IF mapping_df = <<>> THEN Dict(attr_map)
    ELSE attr_map_from(Tail(mapping_df),
                       Put(attr_map, <<Head(mapping_df).subject_label>>,
                           W(Head(mapping_df).object_label)))

\* make_attribute_map, given the lines of the file sssom_map_file names and
\* the lines of the crosswalk the nmdc_schema package holds
make_attribute_map(sssom_map_file, file, packaged) ==
    IF Len(sssom_map_file.v) > 0
    THEN attr_map_from(query_exactMatch(make_dataframe(file)), <<>>)
    ELSE attr_map_from(read_csv(packaged), <<>>)

-----------------------------------------------------------------------------
(* the boot registries: nmdc_runtime/api/boot/triggers.py and workflows.py *)

\* datetime(year, month, day, tzinfo=timezone.utc)
DateTime(year, month, day) ==
    [k |-> "datetime", year |-> year, month |-> month, day |-> day]

\* _raw of triggers.py, lines 5-21
triggers_raw ==
    <<
      D(<<I("created_at", DateTime(2021, 6, 1)),
          I("object_type_id", W("metadata-in")),
          I("workflow_id", W("portal-etl-1.0.0"))>>),
      D(<<I("created_at", DateTime(2021, 9, 1)),
          I("object_type_id", W("metaproteomics_analysis_activity_set")),
          I("workflow_id", W("metap-metadata-1.0.0"))>>),
      D(<<I("created_at", DateTime(2021, 9, 1)),
          I("object_type_id", W("metagenome_raw_paired_end_reads")),
          I("workflow_id", W("metag-1.0.0"))>>)>>

\* _raw of workflows.py, lines 5-91
workflows_raw ==
    <<
      D(<<I("id", W("metag-1.0.0")),
          I("created_at", DateTime(2021, 8, 24)),
          I("name", W("Metagenome Analysis Workflow (v1.0.0)"))>>),
      D(<<I("id", W("readsqc-1.0.1")),
          I("created_at", DateTime(2021, 6, 1)),
          I("name", W("Reads QC Workflow (v1.0.1)"))>>),
      D(<<I("id", W("rba-1.0.1")),
          I("created_at", DateTime(2021, 6, 1)),
          I("name", W("Read-based Analysis (v1.0.1)"))>>),
      D(<<I("id", W("mgasmb-1.0.1")),
          I("created_at", DateTime(2021, 6, 1)),
          I("name", W("Metagenome Assembly (v1.0.1)"))>>),
      D(<<I("id", W("mganno-1.0.0")),
          I("created_at", DateTime(2021, 6, 1)),
          I("name", W("Metagenome Annotation (v1.0.0)"))>>),
      D(<<I("id", W("mgasmbgen-1.0.2")),
          I("created_at", DateTime(2021, 6, 1)),
          I("name", W("Metagenome Assembled Genomes (v1.0.2)"))>>),
      D(<<I("id", W("metat-0.0.2")),
          I("created_at", DateTime(2021, 6, 1)),
          I("name", W("Metatranscriptome (v0.0.2)"))>>),
      D(<<I("id", W("metap-1.0.0")),
          I("created_at", DateTime(2021, 6, 1)),
          I("name", W("Metaproteomic (v1.0.0)"))>>),
      D(<<I("id", W("metab-2.1.0")),
          I("created_at", DateTime(2021, 6, 1)),
          I("name", W("Metabolomics  (v2.1.0)"))>>),
      D(<<I("id", W("gold-translation-1.0.0")),
          I("created_at", DateTime(2021, 6, 1)),
          I("name", W("GOLD db dump translation")),
          I("description", W("Transform metadata obtained from the JGI GOLD database."))>>),
      D(<<I("id", W("metap-metadata-1.0.0")),
          I("created_at", DateTime(2021, 6, 1)),
          I("name", W("metaP metadata ETL")),
          I("description", W("Ingest and validate metaP metadata"))>>),
      D(<<I("id", W("metadata-etl-1.0.0")),
          I("created_at", DateTime(2021, 6, 1)),
          I("name", W("general metadata ETL")),
          I("description", W("Ingest and validate metadata from JSON files"))>>),
      D(<<I("id", W("test")),
          I("created_at", DateTime(2021, 9, 9)),
          I("name", W("A test workflow")),
          I("description", W("For use in unit and integration tests"))>>),
      D(<<I("id", W("gcms-metab-1.0.0")),
          I("created_at", DateTime(2021, 9, 20)),
          I("name", W("GCMS-based metabolomics"))>>),
      D(<<I("id", W("nom-1.0.0")),
          I("created_at", DateTime(2021, 9, 20)),
          I("name", W("Natural Organic Matter characterization"))>>),
      D(<<I("id", W("apply-changesheet-1.0.0")),
          I("created_at", DateTime(2021, 9, 30)),
          I("name", W("apply metadata changesheet")),
          I("description", W("Validate and apply metadata changes from TSV/CSV files"))>>)>>

\* f'{kwargs["object_type_id"]}--{kwargs["workflow_id"]}'
trigger_id(kwargs) ==
    Str(Get(kwargs.v, <<"object_type_id">>).v \o <<"--">>
            \o Get(kwargs.v, <<"workflow_id">>).v)

\* triggers.construct: each kwargs of _raw given its id, then Trigger(**kwargs)
triggers_construct ==
    List([i \in 1..Len(triggers_raw) |->
             Obj("Trigger",
                 Put(triggers_raw[i].v, <<"id">>, trigger_id(triggers_raw[i])))])

\* workflows.construct: each kwargs of _raw given no capabilities, then
\* Workflow(**kwargs)
workflows_construct ==
    List([i \in 1..Len(workflows_raw) |->
             Obj("Workflow",
                 Put(workflows_raw[i].v, <<"capability_ids">>, List(<<>>)))])

-----------------------------------------------------------------------------
(* the functions of the module called on their own *)

\* a call: the function's name and its arguments
Call(fn, args) == [k |-> "call", fn |-> fn, args |-> args]

\* a row whose cells hold several numbers, separated by a blank and by a
\* comma
RowD == <<W("s4"), IntV(5), Str(<<"1", " ", "5">>), Str(<<"1", ",", " ", "5">>),
          W("zz")>>

\* the datasets a record is read from: one row each
FnDatasets == {DataFrame(Columns, <<row>>) : row \in Rows \cup {RowD}}

\* type names: the three the inputs use and one that names nothing
Dtypes == {W("str"), W("int"), W("float"), W("nosuchtype")}

\* the values coerce_value is given: the cells of the rows, literals of a
\* mapping specification, pieces of a split text
Values ==
    {r[c] : r \in Rows, c \in 1..Len(Columns)}
        \cup {W("5"), Str(<<" ", "12", " ">>), Str(<<>>), FloatV(52), IntV(0)}

\* plain references: a field the record has or lacks, with or without a dtype
FieldNames == {"id", "size", "depth", "meter", "absent", "5"}
PlainRefs ==
    {W(n) : n \in FieldNames}
        \cup {Typed(n, d) : n \in FieldNames, d \in {"int", "float", "str"}}

\* the other forms of a field specification
OtherRefs ==
    {Const(W("meter")), Const(Typed("5", "int")),
     D(<<I("$field", Typed("size", "int"))>>), D(<<I("name", W("id"))>>),
     Str(<<"id", ",", "int", ",", "str">>), None}

\* the literals of a constant, and a constant in each place a mapping
\* specification can hold one
Literals == {W("meter"), Typed("5", "int")}
ConstructorConst(literal) == D(<<I("id", W("id")), I("name", Const(literal))>>)
AttributeConst(literal) == D(<<I("lat_lon", Const(literal))>>)
SubFieldConst(literal) ==
    D(<<I("has_raw_value", W("depth")), I("has_unit", Const(literal))>>)
ElementConst(literal) == List(<<Const(literal)>>)

\* nested mappings, as an attribute value and as an element of a list
Nested ==
    {D(<<I("id", W("a"))>>),
     D(<<I("id", None), I("has_raw_value", W("x"))>>),
     D(<<I("id", Str(<<>>)), I("has_raw_value", W("x"))>>),
     D(<<I("has_raw_value", W("x")), I("has_unit", None)>>),
     D(<<I("has_raw_value", NaN)>>),
     D(<<I("id", None)>>),
     D(<<I("name", W("q"))>>),
     D(<<>>)}

\* an object with the nested mapping m as the value of an attribute and as
\* an element of a list
Holding(m) ==
    Obj("Biosample", <<I("id", W("s1")), I("depth", m),
                       I("part_of", List(<<m, D(<<I("id", W("b"))>>)>>))>>)

\* more values make_dict_from_nmdc_obj is given: a plain mapping, a list of
\* mappings, a list of scalars, a list of objects with and without an id
Prunable ==
    Nested
        \cup {List(<<m, D(<<I("id", W("b")), I("name", None)>>)>>) : m \in Nested}
        \cup {List(<<W("a"), None, Str(<<>>), IntV(5), NaN>>),
              List(<<>>),
              List(<<Obj("Study", <<I("id", W("g1")), I("name", None)>>),
                     Obj("Study", <<I("name", W("q"))>>)>>),
              List(<<Obj("Study", <<I("id", None), I("name", W("q"))>>)>>),
              None}

\* elements of a list specification that build nested objects: two columns
\* of equal and of different length, a column the record lacks, a class, a
\* delimiter for the element and one for a sub-field
ListItems ==
    {D(<<I("id", W("ids")), I("name", W("ids"))>>),
     D(<<I("id", W("ids")), I("name", W("meter"))>>),
     D(<<I("id", W("ids")), I("name", W("absent"))>>),
     D(<<I("id", Typed("size", "int")), I("name", W("ids"))>>),
     D(<<I("id", W("ids")), I("name", W("meter")), I("$class_type", W("Study"))>>),
     D(<<I("id", W("ids")), I("$class_type", W("NoSuchClass"))>>),
     D(<<I("id", W("depth")), I("$split_val", W(" "))>>),
     D(<<I("id", W("ids")), I("$split_val", W(" ")), I("$spit_val", W("x"))>>),
     D(<<I("id", W("ids")), I("$spit_val", W("x"))>>),
     D(<<I("id", D(<<I("$field", W("depth")), I("$split_val", W(" "))>>)),
         I("name", W("ids"))>>),
     D(<<>>)}

\* field wrappers of a list specification: a field the record has or lacks,
\* with and without a dtype and a delimiter
FieldWrappers ==
    {D(<<I("$field", W("ids"))>>),
     D(<<I("$field", Typed("ids", "int"))>>),
     D(<<I("$field", Typed("size", "int"))>>),
     D(<<I("$field", Typed("size", "float"))>>),
     D(<<I("$field", W("absent"))>>),
     D(<<I("$field", Typed("absent", "int"))>>),
     D(<<I("$field", W("depth")), I("$split_val", W(" "))>>),
     D(<<I("$field", Typed("depth", "float")), I("$split_val", W(" "))>>),
     D(<<I("$field", W("ids")), I("$split_val", W(" "))>>),
     D(<<I("$field", W("meter")), I("$split_val", None)>>),
     D(<<I("$field", W("size")), I("$split_val", None)>>),
     D(<<I("$field", W("size")), I("$const", Typed("5", "int"))>>)}

\* attribute-list entries that resolve to a structured value: a nested
\* mapping with and without an id or raw value, with a sub-field the record
\* may hold null, with a class; a list
AttributeEntries ==
    {D(<<I("depth", D(<<I("has_raw_value", W("depth"))>>))>>),
     D(<<I("depth", D(<<I("has_raw_value", W("depth")),
                        I("has_unit", W("meter"))>>))>>),
     D(<<I("depth", D(<<I("id", W("id")), I("has_raw_value", W("size"))>>))>>),
     D(<<I("lat_lon", D(<<I("name", W("ids"))>>))>>),
     D(<<I("depth", D(<<I("has_raw_value", W("depth")),
                        I("$class_type", W("QuantityValue"))>>))>>),
     D(<<I("part_of", List(<<W("ids"), W("meter")>>))>>)}

\* attribute-list entries with several keys: references, an object spec or
\* a list first, a key twice under two names of the record
ManyKeyEntries ==
    {D(<<I("name", W("ids")), I("size", Typed("size", "int"))>>),
     D(<<I("size", Typed("size", "int")), I("name", W("ids")),
         I("depth", W("depth"))>>),
     D(<<I("depth", D(<<I("has_raw_value", W("depth"))>>)),
         I("lat_lon", W("meter"))>>),
     D(<<I("part_of", List(<<W("ids")>>)), I("name", W("id"))>>),
     D(<<I("latitude", W("lat")), I("longitude", W("lon")),
         I("has_raw_value", W("lat_lon")),
         I("$class_type", W("GeolocationValue"))>>)}

\* constructor maps with a list specification: of references to one- and
\* several-piece cells, of a field wrapper, of an object spec
ConstructorLists ==
    {D(<<I("id", W("id")), I("part_of", List(<<W("meter")>>))>>),
     D(<<I("id", W("id")), I("part_of", List(<<W("ids"), W("meter")>>))>>),
     D(<<I("part_of", List(<<D(<<I("$field", W("ids"))>>)>>))>>),
     D(<<I("part_of", List(<<D(<<I("id", W("ids"))>>)>>))>>),
     D(<<I("id", W("id")), I("part_of", List(<<>>))>>)}

\* the lines of crosswalk tables: exact matches, one subject twice, two other
\* predicates, a comment
SssomLines ==
    {SssomRow("size", "skos:exactMatch", "sample_size"),
     SssomRow("size", "skos:exactMatch", "samp_size"),
     SssomRow("depth", "skos:closeMatch", "depth_m"),
     SssomRow("name", "skos:narrowMatch", "title"),
     Comment}

\* crosswalk tables, and the path of one ("": the packaged crosswalk)
MaxLines == 2
SssomTables == SeqsUpTo(SssomLines, MaxLines)
SssomPaths == {Str(<<>>), W("map.tsv")}

\* values of an attribute the quantity hook is given: a mapping or an object
\* with a raw value that starts with a number or not, with or without a
\* unit, with a numeric value set before; values with no raw value
QuantityVals ==
    {D(<<I("has_raw_value", Str(<<"5.2", " ", "m">>))>>),
     Obj("QuantityValue", <<I("has_raw_value", Str(<<"5.2", " ", "m">>))>>),
     D(<<I("has_raw_value", W("abc")), I("has_numeric_value", FloatV(10))>>),
     Obj("QuantityValue", <<I("has_raw_value", W("abc"))>>),
     D(<<I("has_raw_value", W("5.2")), I("has_unit", W("m"))>>),
     D(<<I("has_raw_value", IntV(12))>>),
     D(<<I("has_raw_value", Str(<<"12", " ", " ", "m", " ", "g", " ">>))>>),
     D(<<I("has_raw_value", Str(<<"x", " ", "5">>))>>),
     D(<<I("has_raw_value", Str(<<>>))>>),
     D(<<I("has_raw_value", None)>>),
     D(<<I("name", W("q"))>>),
     None}

\* the object lists the hook is given: one or two objects with such a value
\* as depth
QuantityObjs ==
    {List(<<Obj("Biosample", <<I("id", W("s1")), I("depth", v)>>)>>) :
        v \in QuantityVals}
        \cup {List(<<Obj("Biosample", <<I("id", W("s1")), I("depth", v)>>),
                     Obj("Biosample",
                         <<I("id", W("s2")),
                           I("depth", D(<<I("has_raw_value",
                                            Str(<<"1", " ", "g">>))>>))>>)>>) :
                 v \in QuantityVals}

\* the attribute lists: one attribute, the same with one no object has set,
\* one attribute twice
QuantityAttributes ==
    {List(<<W("depth")>>), List(<<W("depth"), W("lat_lon")>>),
     List(<<W("depth"), W("depth")>>)}

\* values of an attribute the date hook is given: dates with and without a
\* time of day, an ISO date, texts that are no date, nulls
DateVals ==
    {Str(<<"30", "-", "OCT", "-", "14", " ", "12.00.00", " ", "AM">>),
     Str(<<"30", "-", "OCT", "-", "14">>),
     Str(<<"5", "-", "JAN", "-", "99">>),
     Str(<<"2014", "-", "10", "-", "30">>),
     Str(<<"14", "-", "10", "-", "30">>),
     W("abc"), Str(<<>>), None, NaN}

\* the object lists the hook is given: objects of a class that has an id and
\* of one that has none, holding such a value
DateObjs ==
    {List(<<Obj("Biosample", <<I("id", W("s1")), I("collection_date", v)>>),
            Obj("Biosample", <<I("id", W("s2")), I("collection_date", w)>>)>>) :
        v \in DateVals, w \in {W("abc"), Str(<<"5", "-", "JAN", "-", "99">>)}}
        \cup {List(<<Obj("QuantityValue", <<I("has_raw_value", v)>>),
                     Obj("Biosample", <<I("id", W("s2")),
                                        I("collection_date", v)>>)>>) :
                 v \in DateVals}

\* the attribute lists: an attribute of either class, both, one no class has
DateAttributes ==
    {List(<<W("collection_date")>>), List(<<W("has_raw_value")>>),
     List(<<W("has_raw_value"), W("collection_date")>>),
     List(<<W("nosuchattribute"), W("collection_date")>>)}

FnCalls ==
    {Call("coerce_value", <<v, d>>) : v \in Values, d \in Dtypes}
        \cup {Call("make_dict_from_nmdc_obj", <<x>>) : x \in Prunable}
        \cup {Call("make_iso_8601_date_value", <<objs, attrs>>) :
                 objs \in DateObjs, attrs \in DateAttributes}
        \cup {Call("make_quantity_value", <<objs, attrs>>) :
                 objs \in QuantityObjs, attrs \in QuantityAttributes}
        \cup {Call("make_attribute_map", <<path, table>>) :
                 path \in SssomPaths, table \in SssomTables}
        \cup {Call("make_value_from_list_item_dict", <<item>>) :
                 item \in FieldWrappers}
        \cup {Call("make_object_from_list_item_dict", <<item>>) :
                 item \in ListItems}
        \cup {Call("get_record_attr", <<f, Bool(b)>>) :
                 f \in PlainRefs \cup OtherRefs, b \in BOOLEAN}
        \cup {Call("make_dict_from_nmdc_obj", <<Holding(m)>>) : m \in Nested}
        \cup {Call("make_dict_from_nmdc_obj", <<List(<<Holding(m)>>)>>) :
                 m \in Nested}
        \cup {Call("make_constructor_args_from_record",
                   <<ConstructorConst(l)>>) : l \in Literals}
        \cup {Call("make_constructor_args_from_record", <<m>>) :
                 m \in ConstructorLists}
        \cup {Call("set_nmdc_object", <<AttributeConst(l)>>) : l \in Literals}
        \cup {Call("set_nmdc_object", <<e>>) : e \in AttributeEntries}
        \cup {Call("set_nmdc_object", <<e>>) : e \in ManyKeyEntries}
        \cup {Call("triggers.construct", <<>>),
              Call("workflows.construct", <<>>)}
        \cup {Call("make_object_from_dict", <<SubFieldConst(l)>>) :
                 l \in Literals}
        \cup {Call("make_object_from_list", <<ElementConst(l)>>) :
                 l \in Literals}

\* the record the functions are given
TheRecord == Record(nmdc_df, 1)

InitFn ==
    /\ nmdc_df0 \in FnDatasets
    /\ nmdc_df = nmdc_df0
    /\ call \in FnCalls
    /\ ret = Pending
    /\ pc = "call"
    /\ run = 1
    /\ nmdc_class = "Biosample"
    /\ constructor_map = D(<<>>) /\ attribute_fields = List(<<>>)
    /\ attribute_map = D(<<>>) /\ transform_map = D(<<>>)
    /\ supplied = Mapping("Biosample", <<>>, <<>>, <<>>)
    /\ pre_i = 1 /\ row_i = 1 /\ af_i = 1 /\ post_i = 1
    /\ nmdc_obj = None /\ nmdc_objs = List(<<>>) /\ nmdc_dicts = None
    /\ exc = None /\ built = <<>> /\ fresh = None
    /\ pre_io = <<>> /\ post_io = <<>>

\* the function called returns result; nothing else changes
Returns(result) ==
    /\ ret' = result
    /\ pc' = "returned"
    /\ UNCHANGED <<run, nmdc_df0, nmdc_class, constructor_map,
                   attribute_fields, attribute_map, transform_map, supplied,
                   nmdc_df, pre_i, row_i, af_i, post_i, nmdc_obj, nmdc_objs,
                   nmdc_dicts, exc, built, fresh, pre_io, post_io, call>>

CoerceValue ==
    /\ pc = "call" /\ call.fn = "coerce_value"
    /\ Returns(coerce_value(call.args[1], call.args[2]))

GetRecordAttr ==
    /\ pc = "call" /\ call.fn = "get_record_attr"
    /\ Returns(get_record_attr(TheRecord, call.args[1], call.args[2].v))

MakeDictFromNmdcObj ==
    /\ pc = "call" /\ call.fn = "make_dict_from_nmdc_obj"
    /\ Returns(make_dict_from_nmdc_obj(call.args[1]))

MakeConstructorArgsFromRecord ==
    /\ pc = "call" /\ call.fn = "make_constructor_args_from_record"
    /\ Returns(make_constructor_args_from_record(call.args[1], TheRecord))

SetNmdcObject ==
    /\ pc = "call" /\ call.fn = "set_nmdc_object"
    /\ Returns(set_nmdc_object(Obj("Biosample", <<>>), TheRecord, D(<<>>),
                               call.args[1]).res)

MakeObjectFromDict ==
    /\ pc = "call" /\ call.fn = "make_object_from_dict"
    /\ Returns(make_object_from_dict(TheRecord, call.args[1]))

MakeObjectFromList ==
    /\ pc = "call" /\ call.fn = "make_object_from_list"
    /\ Returns(make_object_from_list(TheRecord, call.args[1]).res)

MakeObjectFromListItemDict ==
    /\ pc = "call" /\ call.fn = "make_object_from_list_item_dict"
    /\ Returns(make_object_from_list_item_dict(TheRecord, call.args[1]))

MakeValueFromListItemDict ==
    /\ pc = "call" /\ call.fn = "make_value_from_list_item_dict"
    /\ Returns(make_value_from_list_item_dict(TheRecord, call.args[1]))

\* make_attribute_map with the table of the call as the file the path names
\* and as the packaged crosswalk
MakeAttributeMap ==
    /\ pc = "call" /\ call.fn = "make_attribute_map"
    /\ Returns(make_attribute_map(call.args[1], call.args[2], call.args[2]))

QuantityHook ==
    /\ pc = "call" /\ call.fn = "make_quantity_value"
    /\ Returns(make_quantity_value(call.args[1], call.args[2]))

DateHook ==
    /\ pc = "call" /\ call.fn = "make_iso_8601_date_value"
    /\ Returns(make_iso_8601_date_value(call.args[1], call.args[2]))

TriggersConstruct ==
    /\ pc = "call" /\ call.fn = "triggers.construct"
    /\ Returns(triggers_construct)

WorkflowsConstruct ==
    /\ pc = "call" /\ call.fn = "workflows.construct"
    /\ Returns(workflows_construct)

NextFn ==
    \/ CoerceValue
    \/ GetRecordAttr
    \/ MakeDictFromNmdcObj
    \/ MakeConstructorArgsFromRecord
    \/ SetNmdcObject
    \/ MakeObjectFromDict
    \/ MakeObjectFromList
    \/ MakeObjectFromListItemDict
    \/ MakeValueFromListItemDict
    \/ MakeAttributeMap
    \/ QuantityHook
    \/ DateHook
    \/ TriggersConstruct
    \/ WorkflowsConstruct

SpecFn == InitFn /\ [][NextFn]_vars

-----------------------------------------------------------------------------
(* the properties of dataframe_to_dict, under Spec *)

\* the object make_nmdc_object builds from row i of the dataset the rows are
\* read from, or the exception it raises, under the given attribute list
ObjectOfRow(i, fields) ==
    make_nmdc_object(Record(nmdc_df, i), nmdc_class, constructor_map, fields,
                     attribute_map).res

\* C1: dataframe_to_dict returns one pruned mapping per row of the caller's
\* dataset, in row order: the list returned is as long as the dataset, its
\* k-th element is the pruned mapping of the k-th object, which was built
\* from the k-th row and carries that row's id; with no post transform it is
\* the pruned mapping of the object make_nmdc_object builds from that row.
\* (Every mapping specification of the model takes the id from the id
\* column, and every transform of the model keeps the rows, the objects and
\* their order.)
C1_OneMappingPerRowInOrder ==
    pc = "done" =>
        /\ Len(nmdc_dicts.v) = Len(nmdc_df0.rows)
        /\ \A k \in 1..Len(nmdc_dicts.v) :
              /\ built[k] = k
              /\ nmdc_dicts.v[k] = make_dict_from_nmdc_obj(nmdc_objs.v[k])
              /\ Get(nmdc_dicts.v[k].v, <<"id">>) = nmdc_df0.rows[k][1]
              /\ post_transforms = <<>> =>
                    nmdc_dicts.v[k] =
                        make_dict_from_nmdc_obj(
                            null_junk(ObjectOfRow(k, attribute_fields)))

\* two different rows have been turned into two mappings
C1_Witness ==
    /\ pc = "done"
    /\ Len(nmdc_dicts.v) = 2
    /\ nmdc_df0.rows[1] # nmdc_df0.rows[2]
    /\ nmdc_dicts.v[1] # nmdc_dicts.v[2]

\* C2: the phases are barriers: an object is under construction or built
\* only when every pre transform has returned; a post transform has run or
\* is about to run only when every row's object has been built and none is
\* under construction; the mappings exist only when every post transform has
\* returned.
C2_PhasesAreBarriers ==
    /\ (~IsNone(nmdc_obj) \/ built # <<>> \/ pc \in {"new", "type", "attrs"})
          => Len(pre_io) = Len(pre_transforms)
    /\ (post_io # <<>> \/ pc = "post")
          => /\ Len(built) = Len(nmdc_df.rows)
             /\ IsNone(nmdc_obj)
    /\ (~IsNone(nmdc_dicts) \/ pc = "dicts")
          => Len(post_io) = Len(post_transforms)

\* a call with two pre and three post transforms has gone through all three
\* phases for two rows
C2_Witness ==
    /\ pc = "done"
    /\ Len(pre_transforms) >= 2 /\ Len(post_transforms) >= 2
    /\ Len(built) = 2

\* the function and the attributes transform i of a list declares
FunctionOf(transforms, i) == Get(transforms[i].v, <<"function">>)
AttributesOf(transforms, i) == Get(transforms[i].v, <<"attributes">>)

\* C3: the transforms of each list run in declared order as a fold: the
\* i-th run is of the i-th transform declared, the first is given the
\* caller's dataset (pre) or the list of the objects just built (post), and
\* each later one is given what the one before it returned.
C3_HooksFold ==
    /\ \A i \in 1..Len(pre_io) :
          /\ pre_io[i].arg = IF i = 1 THEN nmdc_df0 ELSE pre_io[i - 1].res
          /\ pre_io[i].res =
                ApplyPre(EvalFunction(FunctionOf(pre_transforms, i)),
                         pre_io[i].arg, AttributesOf(pre_transforms, i))
    /\ \A i \in 1..Len(post_io) :
          /\ post_io[i].arg = IF i = 1 THEN fresh ELSE post_io[i - 1].res
          /\ post_io[i].res =
                ApplyPost(EvalFunction(FunctionOf(post_transforms, i)),
                          post_io[i].arg, AttributesOf(post_transforms, i))

\* two pre transforms and two post transforms have run, and the first of
\* each returned something other than what it was given
C3_Witness ==
    /\ Len(pre_io) >= 2 /\ pre_io[1].res # pre_io[1].arg
    /\ Len(post_io) >= 2 /\ post_io[1].res # post_io[1].arg

\* C4: the build of a row depends only on the row and on the mapping
\* specification as the caller supplied it: whenever the build of a row
\* ends, with an object or with an exception, it ends as make_nmdc_object
\* ends for that row under the attribute list the caller supplied.
C4_RowBuildDependsOnSuppliedSpecOnly ==
    /\ (pc = "raised" /\ exc.at \in {"new", "attrs"})
          => ObjectOfRow(exc.i, supplied.attribute_fields) = Raise(exc.type)
    /\ (pc = "attrs" /\ af_i > Len(attribute_fields.v))
          => ObjectOfRow(row_i, supplied.attribute_fields) = nmdc_obj

\* C5: an exception raised while a row is built leaves dataframe_to_dict:
\* the call has ended with that exception, nothing is returned, whatever
\* rows were built before, and no post transform has run.
C5_BuildErrorAbortsRun ==
    (~IsNone(exc) /\ exc.at \in {"new", "attrs"})
        => /\ pc = "raised"
           /\ IsNone(nmdc_dicts)
           /\ post_io = <<>>

\* the text "x" of the second row is no int: the first row was built, post
\* transforms are declared, and the call has ended with the exception
C5_Witness ==
    /\ pc = "raised"
    /\ supplied = MapPlain
    /\ exc.at = "attrs" /\ exc.type = "NameError" /\ exc.i = 2
    /\ built = <<1>>
    /\ post_transforms # <<>>
    /\ IsNone(nmdc_dicts)

\* C6: a transform whose function resolves to nothing ends the call where
\* it is reached: exactly the transforms declared before it have run, no
\* later one has, nothing is returned, and for a pre transform no object has
\* been constructed.
C6_UnresolvableHookIsFatal ==
    /\ (~IsNone(exc) /\ exc.at = "pre-eval")
          => /\ pc = "raised"
             /\ Len(pre_io) = exc.i - 1
             /\ IsNone(nmdc_obj) /\ built = <<>> /\ nmdc_objs = List(<<>>)
             /\ post_io = <<>>
             /\ IsNone(nmdc_dicts)
    /\ (~IsNone(exc) /\ exc.at = "post-eval")
          => /\ pc = "raised"
             /\ Len(post_io) = exc.i - 1
             /\ IsNone(nmdc_dicts)

\* the second of three pre transforms names nothing: the first has run, the
\* third has not, and the rows of the dataset were never read
C6_Witness ==
    /\ pc = "raised"
    /\ exc.at = "pre-eval" /\ exc.i = 2
    /\ Len(pre_transforms) = 3 /\ Len(pre_io) = 1
    /\ Len(nmdc_df0.rows) > 0
    /\ built = <<>>

-----------------------------------------------------------------------------
(* the properties of the functions, under SpecFn *)

\* the name and the dtype a plain reference is written with
NameOf(ref) == <<ref.v[1]>>
DtypeOf(ref) == IF Len(ref.v) = 1 THEN W("str") ELSE Str(<<ref.v[4]>>)

\* C7: for a plain reference, get_record_attr tells presence from value: a
\* field the record has gives its value coerced to the dtype when the value
\* is not null, and null when it is, whatever the flag; a field the record
\* lacks gives the field name coerced to the dtype when return_field_if_none
\* is true and null when it is false.
C7_PresenceVersusNull ==
    (pc = "returned" /\ call.fn = "get_record_attr"
                     /\ call.args[1] \in PlainRefs)
        => IF HasKey(TheRecord, NameOf(call.args[1]))
           THEN IF IsNull(Get(TheRecord, NameOf(call.args[1])))
                THEN ret = None
                ELSE ret = coerce_value(Get(TheRecord, NameOf(call.args[1])),
                                        DtypeOf(call.args[1]))
           ELSE IF call.args[2].v
                THEN ret = coerce_value(Str(NameOf(call.args[1])),
                                        DtypeOf(call.args[1]))
                ELSE ret = None

\* the record has the field, its value is null, the flag is true: null
C7_Witness ==
    /\ pc = "returned" /\ call.fn = "get_record_attr"
    /\ call.args[1] = Typed("meter", "str") /\ call.args[2].v
    /\ IsNull(Get(TheRecord, <<"meter">>))
    /\ ret = None

\* what a constant with the given literal stands for: the literal coerced
\* to its dtype
ConstValue(literal) ==
    Then(get_field_and_dtype_from_attribute_field(literal),
         LAMBDA fd : coerce_value(fd.field, fd.dtype))

\* the value the call resolved the constant of its specification to
ResolvedConst ==
    IF IsRaise(ret) THEN ret
    ELSE CASE call.fn = "make_constructor_args_from_record" ->
                 Get(ret.v, <<"name">>)
           [] call.fn = "set_nmdc_object" -> Get(ret.v, <<"lat_lon">>)
           [] call.fn = "make_object_from_dict" -> Get(ret.v, <<"has_unit">>)
           [] call.fn = "make_object_from_list" -> ret.v[1]
           [] call.fn = "get_record_attr" -> ret

\* C8: a constant resolves to its literal coerced to its dtype, whatever the
\* record, in each place a mapping specification can hold it: as the field
\* get_record_attr is given, as a constructor argument, as an entry of the
\* attribute list, as a sub-field of an object specification, as an element
\* of a list specification.
C8_ConstantBypassesRecord ==
    pc = "returned" =>
        \A l \in Literals :
            call.args[1] \in {Const(l), ConstructorConst(l), AttributeConst(l),
                              SubFieldConst(l), ElementConst(l)}
                => ResolvedConst = ConstValue(l)

\* C9: coerce_value gives None for None whatever the dtype, a type name
\* that names nothing included; for a value that is not null and the dtype
\* "str" it gives the text of the value; the dataset the value was read from
\* is as it was.
C9_CoerceNullAndStr ==
    (pc = "returned" /\ call.fn = "coerce_value")
        => /\ IsNone(call.args[1]) => ret = None
           /\ (~IsNull(call.args[1]) /\ call.args[2] = W("str"))
                 => ret = Str(PyStr(call.args[1]))
           /\ nmdc_df = nmdc_df0

\* None with a type name that names nothing: None, no exception
C9_Witness ==
    /\ pc = "returned" /\ call.fn = "coerce_value"
    /\ IsNone(call.args[1]) /\ call.args[2] = W("nosuchtype")
    /\ ret = None

\* a value that is neither null nor empty
HasValue(v) ==
    /\ ~IsNull(v)
    /\ v.k \in {"str", "list", "dict"} => Len(v.v) > 0

\* a nested mapping with an id that has a value or a has_raw_value that has
\* one
HasIdOrRawValue(m) ==
    \/ HasKey(m.v, <<"id">>) /\ HasValue(Get(m.v, <<"id">>))
    \/ HasKey(m.v, <<"has_raw_value">>)
          /\ HasValue(Get(m.v, <<"has_raw_value">>))

\* C10: pruning keeps a nested mapping if and only if its id or its
\* has_raw_value has a value, as the value of an attribute and as an element
\* of a list alike: the attribute is in the pruned mapping, and the list has
\* the element, exactly in that case.
C10_KeptIffIdOrRawValue ==
    (pc = "returned" /\ call.fn = "make_dict_from_nmdc_obj"
                     /\ IsObj(call.args[1]))
        => /\ HasKey(ret.v, <<"depth">>)
                 <=> HasIdOrRawValue(Get(call.args[1].v, <<"depth">>))
           /\ Len(Get(ret.v, <<"part_of">>).v) =
                 IF HasIdOrRawValue(Get(call.args[1].v, <<"depth">>))
                 THEN 2 ELSE 1

\* C11: pruning is idempotent: what make_dict_from_nmdc_obj returns for an
\* object, a plain mapping or a list, it returns unchanged when given it
\* again.
C11_PruningIdempotent ==
    (pc = "returned" /\ call.fn = "make_dict_from_nmdc_obj")
        => make_dict_from_nmdc_obj(ret) = ret

-----------------------------------------------------------------------------
(* the properties of the nested-object-list element builder, under SpecFn *)

\* the sub-fields of a nested-object-list element: its entries other than the
\* class and the delimiter of the element
SubFields(item) ==
    SelectSeq(item.v,
              LAMBDA it : it.key \notin {<<"$class_type">>, <<"$split_val">>})

\* the delimiter of the element: its "$split_val", or ","
DelimiterOf(item) ==
    IF HasKey(item.v, <<"$split_val">>) THEN Get(item.v, <<"$split_val">>)
    ELSE Str(<<",">>)

\* the column of a sub-field: the pieces of its record value, split on the
\* sub-field's own delimiter or on the element's, each trimmed and coerced;
\* one null when the record has no value
ColumnOf(item, field_name) ==
    Then(get_record_attr(TheRecord, field_name, FALSE),
         LAMBDA val : record_value(field_name, val, DelimiterOf(item)))

\* the element names a class that exists, or none, and every column resolves
Buildable(item) ==
    /\ HasKey(item.v, <<"$class_type">>)
          => ~IsRaise(make_nmdc_class(Get(item.v, <<"$class_type">>)))
    /\ \A j \in 1..Len(SubFields(item)) :
          IsList(ColumnOf(item, SubFields(item)[j].val))

\* the length of the longest column of the element
LongestColumn(item) ==
    IF SubFields(item) = <<>> THEN 0
    ELSE CHOOSE n \in {Len(ColumnOf(item, SubFields(item)[j].val).v) :
                          j \in 1..Len(SubFields(item))} :
             \A j \in 1..Len(SubFields(item)) :
                 Len(ColumnOf(item, SubFields(item)[j].val).v) <= n

\* C12: make_object_from_list_item_dict zips the split columns to the
\* longest: it returns as many objects as the longest column has pieces, the
\* k-th object maps every sub-field key to the k-th piece of its column, and
\* to null where the column is shorter or the record has no value.
C12_ZipsColumnsToLongest ==
    (/\ pc = "returned" /\ call.fn = "make_object_from_list_item_dict"
     /\ ~HasKey(call.args[1].v, <<"$split_val">>)
     /\ Buildable(call.args[1]))
        => /\ IsList(ret.res)
           /\ Len(ret.res.v) = LongestColumn(call.args[1])
           /\ \A k \in 1..Len(ret.res.v) :
                 \A j \in 1..Len(SubFields(call.args[1])) :
                     Get(ret.res.v[k].v, SubFields(call.args[1])[j].key) =
                         IF k <= Len(ColumnOf(call.args[1],
                                         SubFields(call.args[1])[j].val).v)
                         THEN ColumnOf(call.args[1],
                                  SubFields(call.args[1])[j].val).v[k]
                         ELSE None

\* C13: in a nested-object-list element a column is split on the sub-field's
\* own delimiter, else on the "$split_val" of the element, else on ","; the
\* "$split_val" of the element is no sub-field: no object built has the key
\* "$split_val", and the objects hold the pieces of each column in order.
C13_ElementDelimiterIsNoSubField ==
    (/\ pc = "returned" /\ call.fn = "make_object_from_list_item_dict"
     /\ HasKey(call.args[1].v, <<"$split_val">>)
     /\ Buildable(call.args[1]))
        => /\ IsList(ret.res)
           /\ \A k \in 1..Len(ret.res.v) :
                 ~HasKey(ret.res.v[k].v, <<"$split_val">>)
           /\ \A j \in 1..Len(SubFields(call.args[1])) :
                 \A k \in 1..Len(ColumnOf(call.args[1],
                                     SubFields(call.args[1])[j].val).v) :
                     /\ k <= Len(ret.res.v)
                     /\ Get(ret.res.v[k].v, SubFields(call.args[1])[j].key) =
                           ColumnOf(call.args[1],
                               SubFields(call.args[1])[j].val).v[k]

\* the field wrapper of the call names a field and a delimiter that is a
\* text, or no delimiter
IsFieldWrapper(item) ==
    /\ HasKey(item.v, <<"$field">>) /\ ~HasKey(item.v, <<"$const">>)
    /\ IsStr(split_val_of(item))

\* the cell of the record the wrapper names, or null when the record lacks
\* the field
RawValue(item) ==
    IF HasKey(TheRecord, NameOf(Get(item.v, <<"$field">>)))
    THEN Get(TheRecord, NameOf(Get(item.v, <<"$field">>)))
    ELSE None

\* the pieces of the cell's text, split on the wrapper's delimiter, each
\* trimmed and coerced to the wrapper's dtype; the first exception when a
\* piece cannot be coerced
PiecesCoerced(item) ==
    SplitAndCoerce(RawValue(item), split_val_of(item),
                   DtypeOf(Get(item.v, <<"$field">>)))

\* C14: for a field wrapper make_value_from_list_item_dict resolves the field
\* with the name fallback off: a field the record lacks, or whose value is
\* null, gives exactly one null; any other value gives one value per piece
\* of its text split on the delimiter ("," by default), each piece trimmed
\* and coerced on its own to the declared dtype, in order.
C14_FieldWrapperSplitsThenCoerces ==
    (/\ pc = "returned" /\ call.fn = "make_value_from_list_item_dict"
     /\ IsFieldWrapper(call.args[1]))
        => IF IsNull(RawValue(call.args[1])) THEN ret = List(<<None>>)
           ELSE IF IsRaise(PiecesCoerced(call.args[1])) THEN IsRaise(ret)
           ELSE ret = PiecesCoerced(call.args[1])

-----------------------------------------------------------------------------
(* the properties of make_nmdc_object, under Spec *)

\* C15: the type discriminator of a row's object is set to the canonical
\* identifier of the target class after the object is constructed and before
\* the first attribute-list entry is applied: whenever an entry is about to
\* be applied the object has its type, before the first entry it is the
\* class's identifier, and every object the junk pass and the post
\* transforms are given has its type.
C15_TypeSetBeforeAttributes ==
    /\ pc = "type" => IsObj(nmdc_obj)
    /\ pc = "attrs" =>
          /\ HasKey(nmdc_obj.v, <<"type">>)
          /\ af_i = 1 =>
                Get(nmdc_obj.v, <<"type">>) = class_class_curie(nmdc_class)
    /\ pc \in {"junk", "post", "dicts"} =>
          \A k \in 1..Len(nmdc_objs.v) : HasKey(nmdc_objs.v[k].v, <<"type">>)

\* an attribute entry has been applied to an object that has its type, and
\* an object built before it waits with its type for the post transforms
C15_Witness ==
    /\ pc = "attrs" /\ af_i > 1
    /\ Get(nmdc_obj.v, <<"type">>) = class_class_curie(nmdc_class)
    /\ Len(nmdc_objs.v) = 1
    /\ Get(nmdc_objs.v[1].v, <<"type">>) = class_class_curie(nmdc_class)
    /\ post_transforms # <<>>

\* the name of attribute-list entry j: the key of a mapping entry, the field
\* part of a reference
EntryName(j) ==
    IF IsDict(attribute_fields.v[j]) THEN attribute_fields.v[j].v[1].key
    ELSE Strip(Split(attribute_fields.v[j].v, ",")[1])

\* the attribute entry j is to set: the crosswalk's name for the entry's
\* name, or the entry's own name
EntryTarget(j) ==
    IF HasKey(attribute_map.v, EntryName(j))
    THEN Get(attribute_map.v, EntryName(j)).v
    ELSE EntryName(j)

\* the value entry j resolves to for the row being built
EntryValue(j) ==
    Get(set_nmdc_object(Obj(nmdc_class, <<>>), Record(nmdc_df, row_i),
                        attribute_map, attribute_fields.v[j]).res.v,
        EntryTarget(j))

\* the last of the entries applied so far that has the target of entry j
LastFor(j) ==
    CHOOSE l \in 1..(af_i - 1) :
        /\ EntryTarget(l) = EntryTarget(j)
        /\ \A m \in (l + 1)..(af_i - 1) : EntryTarget(m) # EntryTarget(j)

\* C16: the attribute-list entries are applied in list order and the last
\* one wins: while a row's object is built, every attribute that an entry
\* applied so far targets (after crosswalk renaming) holds the value of the
\* last such entry, also when two source names are renamed to one target.
C16_LastEntryWins ==
    pc = "attrs" =>
        \A j \in 1..(af_i - 1) :
            /\ HasKey(nmdc_obj.v, EntryTarget(j))
            /\ Get(nmdc_obj.v, EntryTarget(j)) = EntryValue(LastFor(j))

\* two entries with different names renamed to one target have been applied,
\* and so have two entries with one name; they resolve to different values
C16_Witness ==
    /\ pc = "attrs" /\ af_i > Len(attribute_fields.v)
    /\ \E j, l \in 1..(af_i - 1) :
          /\ j < l /\ EntryName(j) # EntryName(l)
          /\ EntryTarget(j) = EntryTarget(l)
          /\ EntryValue(j) # EntryValue(l)
    /\ \E j, l \in 1..(af_i - 1) :
          /\ j < l /\ EntryName(j) = EntryName(l)
          /\ EntryValue(j) # EntryValue(l)

\* C17: the crosswalk renames in the attribute assignment only: an applied
\* entry whose name is a crosswalk key is set under the crosswalk's name,
\* and the object has the entry's own name only from the constructor or as
\* the target of an entry; an entry whose name is no key is set under its
\* own name; a constructor argument is set under its own name, and the
\* crosswalk's name for it is set only by an entry.
C17_CrosswalkRenamesAttributesOnly ==
    pc = "attrs" =>
        /\ \A j \in 1..(af_i - 1) :
              IF HasKey(attribute_map.v, EntryName(j))
              THEN /\ HasKey(nmdc_obj.v, Get(attribute_map.v, EntryName(j)).v)
                   /\ HasKey(nmdc_obj.v, EntryName(j)) =>
                         \/ HasKey(constructor_map.v, EntryName(j))
                         \/ \E l \in 1..(af_i - 1) :
                                EntryTarget(l) = EntryName(j)
              ELSE HasKey(nmdc_obj.v, EntryName(j))
        /\ \A c \in 1..Len(constructor_map.v) :
              /\ HasKey(nmdc_obj.v, constructor_map.v[c].key)
              /\ (/\ HasKey(attribute_map.v, constructor_map.v[c].key)
                  /\ HasKey(nmdc_obj.v,
                            Get(attribute_map.v, constructor_map.v[c].key).v))
                    => \E l \in 1..(af_i - 1) :
                           EntryTarget(l) =
                               Get(attribute_map.v, constructor_map.v[c].key).v

\* an object constructed with an argument whose name is a crosswalk key has
\* it under that name; an entry whose name is another key has been applied
\* under the crosswalk's name, and the object lacks the entry's own name; an
\* entry whose name is no key has been applied under its own name
C17_Witness ==
    /\ pc = "attrs"
    /\ \E c \in 1..Len(constructor_map.v) :
          /\ HasKey(attribute_map.v, constructor_map.v[c].key)
          /\ HasKey(nmdc_obj.v, constructor_map.v[c].key)
    /\ \E j \in 1..(af_i - 1) :
          /\ HasKey(attribute_map.v, EntryName(j))
          /\ HasKey(nmdc_obj.v, EntryTarget(j))
          /\ ~HasKey(nmdc_obj.v, EntryName(j))
    /\ \E j \in 1..(af_i - 1) :
          /\ ~HasKey(attribute_map.v, EntryName(j))
          /\ HasKey(nmdc_obj.v, EntryName(j))

-----------------------------------------------------------------------------
(* the properties of set_nmdc_object and of the constructor arguments, under
   SpecFn *)

\* the attribute-list entry names a nested mapping and no class
IsUntypedObjectEntry(af) ==
    /\ IsDict(af) /\ Len(af.v) > 0
    /\ IsDict(af.v[1].val)
    /\ ~HasKey(af.v[1].val.v, <<"$class_type">>)

\* the value the object returned holds under the name of the entry
Attached == Get(ret.v, call.args[1].v[1].key)

\* C18: when an attribute-list entry resolves to a structured value and names
\* no class, set_nmdc_object attaches the pruned form of the value: the
\* mapping attached has no null or empty sub-value, and a mapping with no
\* id and no has_raw_value that has a value is not attached.
C18_AttachesPrunedMapping ==
    (/\ pc = "returned" /\ call.fn = "set_nmdc_object"
     /\ IsUntypedObjectEntry(call.args[1]) /\ IsObj(ret)
     /\ HasKey(ret.v, call.args[1].v[1].key)
     /\ ~IsNull(Attached))
        => /\ IsDict(Attached)
           /\ HasIdOrRawValue(Attached)
           /\ \A i \in 1..Len(Attached.v) : HasValue(Attached.v[i].val)

\* the list make_object_from_list gives for the list specification that is
\* the value of item c of the constructor map of the call
ListOf(c) == make_object_from_list(TheRecord, call.args[1].v[c].val).res

\* C19: in the constructor step a non-empty list specification is resolved
\* as make_object_from_list resolves it: the argument is the list
\* make_object_from_list gives for the same specification and record, and
\* where that call raises, so does the constructor step.
C19_ConstructorListAsListBuilder ==
    (pc = "returned" /\ call.fn = "make_constructor_args_from_record")
        => \A c \in 1..Len(call.args[1].v) :
               (IsList(call.args[1].v[c].val)
                   /\ Len(call.args[1].v[c].val.v) > 0)
                   => IF IsRaise(ListOf(c)) THEN IsRaise(ret)
                      ELSE /\ IsDict(ret)
                           /\ Get(ret.v, call.args[1].v[c].key) = ListOf(c)

\* C20: the rename mapping make_attribute_map builds has an entry
\* subject_label -> object_label only for rows of the crosswalk whose
\* predicate_id is the exact-match relation, with a crosswalk file and with
\* the packaged crosswalk alike; every subject of an exact-match row is a
\* key, and a row with another predicate contributes no entry.
C20_OnlyExactMatchRows ==
    (pc = "returned" /\ call.fn = "make_attribute_map")
        => /\ \A i \in 1..Len(ret.v) :
                 \E j \in 1..Len(call.args[2]) :
                     /\ call.args[2][j] # Comment
                     /\ call.args[2][j].predicate_id = "skos:exactMatch"
                     /\ ret.v[i].key = <<call.args[2][j].subject_label>>
                     /\ ret.v[i].val = W(call.args[2][j].object_label)
           /\ \A j \in 1..Len(call.args[2]) :
                 (/\ call.args[2][j] # Comment
                  /\ call.args[2][j].predicate_id = "skos:exactMatch")
                    => HasKey(ret.v, <<call.args[2][j].subject_label>>)

-----------------------------------------------------------------------------
(* the properties of the transform hooks, under SpecFn *)

\* the raw value of a mapping or an object, or None when it has none
RawOf(val) ==
    IF IsNone(val) \/ ~HasKey(val.v, <<"has_raw_value">>) THEN None
    ELSE Get(val.v, <<"has_raw_value">>)

\* the text of a raw value before its first blank, and whether it has one
HeadOf(raw) == SplitOnce(PyStr(raw), " ")[1]
HasTail(raw) == Contains(PyStr(raw), " ")
TailOf(raw) == SplitOnce(PyStr(raw), " ")[2]

\* field name of val: its value, or Unset
Unset == [k |-> "unset"]
FieldOf(val, name) == IF HasKey(val.v, name) THEN Get(val.v, name) ELSE Unset

\* the value an object holds under name, or None
AttrOf(obj, name) == IF HasKey(obj.v, name) THEN Get(obj.v, name) ELSE None

\* after is before with the raw value split into number and unit
QuantityUpdated(before, after) ==
    /\ after.k = before.k
    /\ RawOf(after) = RawOf(before)
    /\ FieldOf(after, <<"has_numeric_value">>) =
          IF IsNone(ParseFloat(HeadOf(RawOf(before))))
          THEN FieldOf(before, <<"has_numeric_value">>)
          ELSE ParseFloat(HeadOf(RawOf(before)))
    /\ FieldOf(after, <<"has_unit">>) =
          IF HasTail(RawOf(before)) THEN Str(Strip(TailOf(RawOf(before))))
          ELSE FieldOf(before, <<"has_unit">>)

\* C21: make_quantity_value raises nothing for attributes that have a raw
\* value or a null value; for each named attribute of each object that has a
\* raw value that is not null, has_numeric_value is the number the text
\* before the first blank denotes when it denotes one, and as it was when it
\* does not; has_unit is the trimmed text after the first blank when there
\* is one, and as it was when there is none.
C21_QuantityValueSplit ==
    (pc = "returned" /\ call.fn = "make_quantity_value")
        => /\ IsList(ret)
           /\ Len(ret.v) = Len(call.args[1].v)
           /\ \A i \in 1..Len(ret.v) :
                 \A a \in 1..Len(call.args[2].v) :
                     ~IsNull(RawOf(AttrOf(call.args[1].v[i],
                                          call.args[2].v[a].v)))
                         => QuantityUpdated(
                                AttrOf(call.args[1].v[i], call.args[2].v[a].v),
                                AttrOf(ret.v[i], call.args[2].v[a].v))

\* the hook was given a raw value with a number and a unit, one with
\* neither and a numeric value set before, and returned
C21_Witness ==
    /\ pc = "returned" /\ call.fn = "make_quantity_value"
    /\ Len(ret.v) = 2
    /\ RawOf(AttrOf(call.args[1].v[1], <<"depth">>)) = W("abc")
    /\ AttrOf(ret.v[1], <<"depth">>) =
          D(<<I("has_raw_value", W("abc")), I("has_numeric_value", FloatV(10))>>)
    /\ AttrOf(ret.v[2], <<"depth">>) =
          D(<<I("has_raw_value", Str(<<"1", " ", "g">>)),
              I("has_numeric_value", FloatV(10)), I("has_unit", W("g"))>>)

\* the text of a value before its first blank is a day, an abbreviated month
\* and a two-digit year joined by "-"
IsDate(v) ==
    /\ ~IsNone(v)
    /\ Len(HeadOf(v)) = 5
    /\ HeadOf(v)[2] = "-" /\ HeadOf(v)[4] = "-"
    /\ HeadOf(v)[1] \in DOMAIN DayLit
    /\ HeadOf(v)[3] \in DOMAIN MonthLit
    /\ HeadOf(v)[5] \in DOMAIN YearLit

\* the calendar date of such a value: year, month, day
IsoOf(v) ==
    Str(<<YearLit[HeadOf(v)[5]], "-", MonthLit[HeadOf(v)[3]], "-",
          DayLit[HeadOf(v)[1]]>>)

\* the value of the example: "30-OCT-14 12.00.00 AM"
ExampleDate == Str(<<"30", "-", "OCT", "-", "14", " ", "12.00.00", " ", "AM">>)

\* the hook returned a list, and object i has the named attribute a
DateHookSet(i, a) ==
    /\ pc = "returned" /\ call.fn = "make_iso_8601_date_value" /\ IsList(ret)
    /\ i \in 1..Len(ret.v) /\ a \in 1..Len(call.args[2].v)
    /\ HasKey(call.args[1].v[i].v, call.args[2].v[a].v)

C23_UnparsedDateNeverRaises ==
    (pc = "returned" /\ call.fn = "make_iso_8601_date_value")
        => /\ IsList(ret)
           /\ Len(ret.v) = Len(call.args[1].v)
           /\ \A i \in 1..Len(ret.v) : \A a \in 1..Len(call.args[2].v) :
                 ~IsDate(AttrOf(call.args[1].v[i], call.args[2].v[a].v))
                     => AttrOf(ret.v[i], call.args[2].v[a].v) =
                            AttrOf(call.args[1].v[i], call.args[2].v[a].v)

\* every object of the list has an id
AllCarryId(objs) == \A i \in 1..Len(objs.v) : HasKey(objs.v[i].v, <<"id">>)

\* C29: the date hook is idempotent on objects that carry an id: applied
\* again with the same attribute list to the list it returned, it returns
\* that list unchanged.
C29_DateHookIdempotent ==
    (pc = "returned" /\ call.fn = "make_iso_8601_date_value"
                     /\ AllCarryId(call.args[1]))
        => /\ IsList(ret)
           /\ make_iso_8601_date_value(ret, call.args[2]) = ret

\* the first application rewrote a date of an object that carries an id and
\* left a text that is no date
C29_Witness ==
    /\ pc = "returned" /\ call.fn = "make_iso_8601_date_value"
    /\ AllCarryId(call.args[1]) /\ IsList(ret)
    /\ AttrOf(call.args[1].v[1], <<"collection_date">>) = ExampleDate
    /\ AttrOf(ret.v[1], <<"collection_date">>) =
          Str(<<"2014", "-", "10", "-", "30">>)
    /\ AttrOf(ret.v[2], <<"collection_date">>) = W("abc")


-----------------------------------------------------------------------------
(* the properties of the output and of the specification objects, under
   Spec *)

\* an element of a list of the output: it has a value, and a mapping among
\* them has an id or a has_raw_value that has one
PrunedElement(e) ==
    /\ HasValue(e)
    /\ IsDict(e) => HasIdOrRawValue(e)

\* the value of a key of a mapping of the output
PrunedValue(v) ==
    /\ PrunedElement(v)
    /\ IsList(v) => \A j \in 1..Len(v.v) : PrunedElement(v.v[j])

\* the keys of the object nmdc_objs.v[i] that its mapping of the output
\* does not have
PrunedKeys(i) ==
    {j \in 1..Len(nmdc_objs.v[i].v) :
        ~HasKey(nmdc_dicts.v[i].v, nmdc_objs.v[i].v[j].key)}

\* C24: every mapping dataframe_to_dict returns is pruned at its top level:
\* no key of it has a value that is null, an empty string, an empty list, an
\* empty mapping or a mapping without an id or has_raw_value that has a
\* value, and every element of a list value has a value and, if a mapping,
\* such an id or has_raw_value.
C24_OutputPruned ==
    pc = "done" =>
        \A i \in 1..Len(nmdc_dicts.v) :
            IsDict(nmdc_dicts.v[i]) =>
                \A j \in 1..Len(nmdc_dicts.v[i].v) :
                    PrunedValue(nmdc_dicts.v[i].v[j].val)

\* a run has returned a mapping that lost a key of its object and kept a
\* nested mapping
C24_Witness ==
    /\ pc = "done"
    /\ \E i \in 1..Len(nmdc_dicts.v) :
          /\ IsObj(nmdc_objs.v[i]) /\ IsDict(nmdc_dicts.v[i])
          /\ PrunedKeys(i) # {}
          /\ \E j \in 1..Len(nmdc_dicts.v[i].v) :
                IsDict(nmdc_dicts.v[i].v[j].val)


\* C25: run on the dataset of two rows with the columns sample_id and
\* lat_lon ("-33.46 150.17"), with the constructor spec {id: "sample_id"}
\* and the attribute list [{latitude: "lat", longitude: "lon", has_raw_value:
\* "lat_lon", $class_type: "GeolocationValue"}], dataframe_to_dict returns
\* two mappings with the type set, with a geolocation whose has_raw_value is
\* "-33.46 150.17", and with no latitude and no longitude.
C25_GeolocationEndToEnd ==
    (pc = "done" /\ supplied = MapGeolocation /\ nmdc_df0 = GeoDataset
                 /\ transform_map = D(<<>>))
        => /\ Len(nmdc_dicts.v) = 2
           /\ \A i \in 1..Len(nmdc_dicts.v) :
                 /\ HasKey(nmdc_dicts.v[i].v, <<"type">>)
                 /\ ~HasKey(nmdc_dicts.v[i].v, <<"latitude">>)
                 /\ ~HasKey(nmdc_dicts.v[i].v, <<"longitude">>)
                 /\ HasKey(nmdc_dicts.v[i].v, <<"geolocation">>)
                 /\ AttrOf(Get(nmdc_dicts.v[i].v, <<"geolocation">>),
                           <<"has_raw_value">>)
                       = Str(<<"-33.46", " ", "150.17">>)


\* C26: dataframe_to_dict leaves the caller's mapping specification as it
\* was: at every point of every run constructor_map, attribute_fields, with
\* every nested object spec and list element and their "$class_type" and
\* "$split_val" keys, and attribute_map equal what the caller supplied.
C26_SpecificationUnchanged ==
    /\ constructor_map = supplied.constructor_map
    /\ attribute_fields = supplied.attribute_fields
    /\ attribute_map = supplied.attribute_map


\* a plain mapping with neither an id key nor a has_raw_value key
IsJunk(v) ==
    /\ IsDict(v)
    /\ ~HasKey(v.v, <<"id">>)
    /\ ~HasKey(v.v, <<"has_raw_value">>)

\* the attribute item as the first post transform finds the attribute that
\* the build of the row left as the item before
JunkNulled(before, item) ==
    /\ item.key = before.key
    /\ item.val = IF IsJunk(before.val) THEN None ELSE before.val
    /\ ~IsJunk(item.val)

\* C27: when the first post transform starts, no object has an attribute
\* whose value is a plain mapping with neither an id key nor a has_raw_value
\* key: each object has the attributes the build of its row gave it, those
\* whose value was such a mapping now null, every other one, a mapping with
\* one of the two keys and a null value among them, as the build left it.
C27_NoJunkWhenPostStarts ==
    (pc = "post" /\ post_i = 1) =>
        \A k \in 1..Len(nmdc_objs.v) :
            /\ Len(nmdc_objs.v[k].v) = Len(ObjectOfRow(k, attribute_fields).v)
            /\ \A j \in 1..Len(nmdc_objs.v[k].v) :
                  JunkNulled(ObjectOfRow(k, attribute_fields).v[j],
                             nmdc_objs.v[k].v[j])

\* the first post transform is about to run on an object that lost a
\* mapping with neither key and kept one whose has_raw_value is null
C27_Witness ==
    /\ pc = "post" /\ post_i = 1
    /\ \E k \in 1..Len(nmdc_objs.v) :
          /\ HasKey(ObjectOfRow(k, attribute_fields).v, <<"lat_lon">>)
          /\ IsJunk(Get(ObjectOfRow(k, attribute_fields).v, <<"lat_lon">>))
          /\ Get(nmdc_objs.v[k].v, <<"lat_lon">>) = None
          /\ IsDict(Get(nmdc_objs.v[k].v, <<"depth">>))
          /\ IsNull(Get(Get(nmdc_objs.v[k].v, <<"depth">>).v,
                        <<"has_raw_value">>))


-----------------------------------------------------------------------------
(* the first pair of an attribute-list entry, under SpecFn *)

\* the entry of the call cut down to its first key/value pair
FirstPairOnly == D(<<call.args[1].v[1]>>)

\* the keys of the entry of the call after the first
FurtherKeys ==
    {call.args[1].v[j].key : j \in 2..Len(call.args[1].v)}
        \ {call.args[1].v[1].key}

\* C28: of an attribute-list entry that is a mapping set_nmdc_object uses
\* the first key/value pair only: the call ends as it ends for the entry of
\* that pair alone, with the attribute of the first key set to what the
\* first value resolves to, and the object has no attribute of a further
\* key.
C28_FirstPairOnly ==
    (/\ pc = "returned" /\ call.fn = "set_nmdc_object"
     /\ IsDict(call.args[1]) /\ Len(call.args[1].v) > 1)
        => /\ ret = set_nmdc_object(Obj("Biosample", <<>>), TheRecord,
                                    D(<<>>), FirstPairOnly).res
           /\ IsObj(ret) =>
                 /\ HasKey(ret.v, call.args[1].v[1].key)
                 /\ \A key \in FurtherKeys : ~HasKey(ret.v, key)

\* set_nmdc_object has returned the object for an entry of three keys, the
\* first one's attribute set from the record
C28_Witness ==
    /\ pc = "returned" /\ call.fn = "set_nmdc_object"
    /\ IsDict(call.args[1]) /\ Len(call.args[1].v) = 3
    /\ IsObj(ret)
    /\ Get(ret.v, <<"size">>) = IntV(12)


-----------------------------------------------------------------------------
(* the trigger registry, under SpecFn *)

\* the ids of the workflows workflows.construct builds
WorkflowIds ==
    {Get(workflows_construct.v[i].v, <<"id">>) :
        i \in 1..Len(workflows_construct.v)}

\* C30: the triggers triggers.construct builds are uniquely keyed and refer
\* to workflows that exist: each trigger's id is its object_type_id, "--"
\* and its workflow_id, no two triggers have one id, and each trigger's
\* workflow_id is the id of a workflow workflows.construct builds.
C30_TriggerRegistryIntact ==
    (pc = "returned" /\ call.fn = "triggers.construct") =>
        /\ \A i \in 1..Len(ret.v) :
              /\ Get(ret.v[i].v, <<"id">>).v =
                    Get(ret.v[i].v, <<"object_type_id">>).v \o <<"--">>
                        \o Get(ret.v[i].v, <<"workflow_id">>).v
              /\ Get(ret.v[i].v, <<"workflow_id">>) \in WorkflowIds
        /\ \A i, j \in 1..Len(ret.v) :
              Get(ret.v[i].v, <<"id">>) = Get(ret.v[j].v, <<"id">>) => i = j

====
